---- MODULE Spec2Model ----
(***************************************************************************)
(* A model of fronty.js (src/fronty.js-keyed/src/fronty.js): the tree      *)
(* comparator (TreeComparator.diff / applyPatches), the component render   *)
(* cycle (Component.render / _renderNewTree), the component lifecycle and  *)
(* the observable Model, together with the benchmark's use of them.        *)
(*                                                                         *)
(* DOM nodes live in a store (a sequence of node records); a node is named *)
(* by its index in the store, which plays the role of the JavaScript       *)
(* object reference.  0 stands for null / undefined.                       *)
(***************************************************************************)
EXTENDS Integers, Sequences, FiniteSets, TLC

\* ------------------------------------------------------------------------
\* Values of the DOM
\* ------------------------------------------------------------------------

\* The result of getAttribute() for a missing attribute (JavaScript null).
Null == "<null>"

ELEMENT_NODE == "ELEMENT_NODE"
TEXT_NODE == "TEXT_NODE"
COMMENT_NODE == "COMMENT_NODE"

\* nodeValue of a text or comment node: the string
\*   __FTN__:m1#__FTN__:m2#...text
\* is kept as the sequence of its leading markers and the rest of the text.
NodeValue(marks, text) == [marks |-> marks, text |-> text]

\* nodeValue of an element (null).
NullValue == NodeValue(<<>>, Null)

\* Markup, as a renderer function or a template gives it: what innerHTML
\* parses, or what createElement / setAttribute calls build.
El(tag, attrs, kids) ==
  [nodeType |-> ELEMENT_NODE, tagName |-> tag, attributes |-> attrs,
   nodeValue |-> NullValue, kids |-> kids]

Tx(text) ==
  [nodeType |-> TEXT_NODE, tagName |-> Null, attributes |-> <<>>,
   nodeValue |-> NodeValue(<<>>, text), kids |-> <<>>]

\* ------------------------------------------------------------------------
\* Sequences
\* ------------------------------------------------------------------------

Has(s, x) == \E i \in 1..Len(s) : s[i] = x

IndexOf(s, x) == IF Has(s, x) THEN CHOOSE i \in 1..Len(s) : s[i] = x /\ \A j \in 1..(i - 1) : s[j] # x ELSE 0

RemoveAt(s, i) == SubSeq(s, 1, i - 1) \o SubSeq(s, i + 1, Len(s))

InsertAt(s, i, x) == SubSeq(s, 1, i - 1) \o <<x>> \o SubSeq(s, i, Len(s))

Without(s, x) == SelectSeq(s, LAMBDA y : y # x)

Range(s) == {s[i] : i \in 1..Len(s)}

\* Some member of a set of positions, 0 when there is none.
Pick(S) == IF S = {} THEN 0 ELSE CHOOSE x \in S : TRUE

\* ------------------------------------------------------------------------
\* The node store and the DOM operations the library uses
\* ------------------------------------------------------------------------

IsNode(h, n) == n \in 1..Len(h)

\* node.parentNode (0 when the node is detached)
ParentOf(h, n) == Pick({p \in 1..Len(h) : Has(h[p].childNodes, n)})

\* A node leaves its current parent, as the DOM does before it inserts a
\* node somewhere else.
Detach(h, n) ==
  LET p == ParentOf(h, n)
  IN IF p = 0 THEN h ELSE [h EXCEPT ![p].childNodes = Without(@, n)]

\* parent.appendChild(n)
AppendChild(h, parent, n) ==
  LET h1 == Detach(h, n)
  IN [h1 EXCEPT ![parent].childNodes = Append(@, n)]

\* parent.insertBefore(n, ref); ref = 0 (null or undefined) appends
InsertBefore(h, parent, n, ref) ==
  LET h1 == Detach(h, n)
      i == IndexOf(h1[parent].childNodes, ref)
  IN IF ref = 0 \/ i = 0
     THEN [h1 EXCEPT ![parent].childNodes = Append(@, n)]
     ELSE [h1 EXCEPT ![parent].childNodes = InsertAt(@, i, n)]

\* parent.removeChild(n)
RemoveChild(h, parent, n) == [h EXCEPT ![parent].childNodes = Without(@, n)]

\* parent.replaceChild(new, old)
ReplaceChild(h, parent, new, old) ==
  LET h1 == Detach(h, new)
      i == IndexOf(h1[parent].childNodes, old)
  IN IF i = 0 THEN h1
     ELSE [h1 EXCEPT ![parent].childNodes = [@ EXCEPT ![i] = new]]

\* Attributes are kept in document order, as node.attributes lists them.
HasAttr(attrs, name) == \E i \in 1..Len(attrs) : attrs[i][1] = name

ValueAt(attrs, i) == IF i = 0 THEN Null ELSE attrs[i][2]

GetAttr(attrs, name) == ValueAt(attrs, Pick({i \in 1..Len(attrs) : attrs[i][1] = name}))

SetAttr(attrs, name, value) ==
  IF HasAttr(attrs, name)
  THEN [i \in 1..Len(attrs) |-> IF attrs[i][1] = name THEN <<name, value>> ELSE attrs[i]]
  ELSE Append(attrs, <<name, value>>)

RemoveAttr(attrs, name) == SelectSeq(attrs, LAMBDA a : a[1] # name)

\* element.id: the id attribute, or the empty string; undefined (Null here)
\* on a text node.  Either is falsy.
IdOf(h, n) ==
  IF h[n].nodeType = ELEMENT_NODE THEN GetAttr(h[n].attributes, "id") ELSE Null

\* document.createElement / innerHTML: the nodes of a piece of markup are
\* created in the store, the root last; the result is the store and the root.
RECURSIVE Build(_, _), BuildKids(_, _, _, _)
BuildKids(h, ms, i, acc) ==
  IF i > Len(ms) THEN [heap |-> h, nodes |-> acc]
  ELSE LET b == Build(h, ms[i])
       IN BuildKids(b.heap, ms, i + 1, Append(acc, b.root))

Build(h, m) ==
  LET ks == BuildKids(h, m.kids, 1, <<>>)
      node == [nodeType |-> m.nodeType, tagName |-> m.tagName,
               attributes |-> m.attributes, nodeValue |-> m.nodeValue,
               childNodes |-> ks.nodes]
  IN [heap |-> Append(ks.heap, node), root |-> Len(ks.heap) + 1]

\* node.cloneNode(true)
RECURSIVE CloneNode(_, _), CloneKids(_, _, _, _)
CloneKids(h, ns, i, acc) ==
  IF i > Len(ns) THEN [heap |-> h, nodes |-> acc]
  ELSE LET c == CloneNode(h, ns[i])
       IN CloneKids(c.heap, ns, i + 1, Append(acc, c.root))

CloneNode(h, n) ==
  LET ks == CloneKids(h, h[n].childNodes, 1, <<>>)
      node == [h[n] EXCEPT !.childNodes = ks.nodes]
  IN [heap |-> Append(ks.heap, node), root |-> Len(ks.heap) + 1]

\* All the nodes of the subtree of n, n included, in document order.
RECURSIVE Subtree(_, _), SubtreeOfAll(_, _, _)
SubtreeOfAll(h, ns, i) ==
  IF i > Len(ns) THEN <<>> ELSE Subtree(h, ns[i]) \o SubtreeOfAll(h, ns, i + 1)

Subtree(h, n) == <<n>> \o SubtreeOfAll(h, h[n].childNodes, 1)

\* ------------------------------------------------------------------------
\* TreeComparator: diff
\* ------------------------------------------------------------------------

\* A patch.  replacement is 0 and beforePos is -1 where the code leaves them
\* undefined; the mode of a whole-subtree replacement (undefined in the code)
\* is written "replace-subtree".
Patch(mode, toReplace, replacement, beforePos) ==
  [mode |-> mode, toReplace |-> toReplace, replacement |-> replacement,
   beforePos |-> beforePos]

\* JavaScript truthiness of an attribute value.
Truthy(v) == v # Null /\ v # ""

\* The property name a value becomes as the left operand of `in`.
KeyStr(k) == IF k = Null THEN "null" ELSE k

KeyOf(h, n) == GetAttr(h[n].attributes, "key")

\* One of the two tables _buildChildrenKeyIndex fills: key -> position
\* (from 0) among the children of node; a later child with the same key
\* overwrites an earlier one.
BuildChildrenKeyIndex(h, node) ==
  LET kids == h[node].childNodes
      keyed == {i \in 1..Len(kids) :
                  h[kids[i]].nodeType = ELEMENT_NODE /\ Truthy(KeyOf(h, kids[i]))}
      keys == {KeyOf(h, kids[i]) : i \in keyed}
      last(k) == CHOOSE i \in keyed :
                   KeyOf(h, kids[i]) = k /\ \A j \in keyed : KeyOf(h, kids[j]) = k => j <= i
  IN [k \in keys |-> last(k) - 1]

SwapArrayElements(arr, indexA, indexB) ==
  [arr EXCEPT ![indexA + 1] = arr[indexB + 1], ![indexB + 1] = arr[indexA + 1]]

\* The attributes _equalAttributes compares: all but frontyid, in order.
ComparedAttributes(attrs) == SelectSeq(attrs, LAMBDA a : a[1] # "frontyid")

EqualAttributes(h, node1, node2) ==
  IF h[node1].nodeType # ELEMENT_NODE /\ h[node2].nodeType # ELEMENT_NODE THEN TRUE
  ELSE IF h[node1].nodeType # ELEMENT_NODE \/ h[node2].nodeType # ELEMENT_NODE THEN FALSE
  ELSE LET a1 == ComparedAttributes(h[node1].attributes)
           a2 == ComparedAttributes(h[node2].attributes)
       IN /\ Len(a1) = Len(a2)
          /\ \A i \in 1..Len(a1) : a1[i][1] = a2[i][1] /\ a1[i][2] = a2[i][2]

\* The compare policy _renderNewTree passes to diff, as data: whether a
\* policy is given at all, whether this is the first render, and the ids of
\* this.childComponentIds.
NoPolicy == [given |-> FALSE, firstRender |-> FALSE, childComponentIds |-> {}]

\* A policy that knows no child slots: what _renderNewTree would pass if its
\* first rule after the first render were left out.
ComparePolicyWithoutSlots(h, pol, node1, node2) ==
  IF pol.firstRender THEN "REPLACE"
  ELSE IF h[node1].nodeType = COMMENT_NODE /\ h[node1].nodeValue.text = "fronty-text-node"
    THEN "SKIP"
  ELSE "DIFF"

ComparePolicy(h, pol, node1, node2) ==
  LET id1 == IdOf(h, node1)
      id2 == IdOf(h, node2)
  IN IF pol.firstRender THEN "REPLACE"
     ELSE IF Truthy(id1) /\ Truthy(id2) /\ id1 = id2 /\ id1 \in pol.childComponentIds
       THEN "SKIP"
     ELSE IF Truthy(id1) /\ id1 \in pol.childComponentIds THEN "REPLACE"
     ELSE IF h[node1].nodeType = COMMENT_NODE /\ h[node1].nodeValue.text = "fronty-text-node"
       THEN "SKIP"
     ELSE "DIFF"

\* The result of a diff: the patch list, the policy's verdicts in the order
\* it was asked, and whether the walk of some child list came back to a
\* state (cursors and local array) it had been in: the while loop of
\* _compareChildren reads nothing else, so it then never ends and diff
\* does not return.
DiffResult(patches, calls, diverged) ==
  [patches |-> patches, calls |-> calls, diverged |-> diverged]

\* beforePos of an insert-node patch: the old-side cursor, moved by what this
\* scan has inserted and removed so far.
BeforePosUnadjusted(st) == st.child1pos

BeforePosAfter(st) == st.child1pos + 1 + st.insertions - st.deletions

BeforePos(st) == st.child1pos + st.insertions - st.deletions

RECURSIVE Diff(_, _, _, _), WalkStep(_, _, _), Walk(_, _, _)

\* One iteration of the while loop of _compareChildren.  cx holds what the
\* loop does not change (node1, node2, the two key tables, the policy), st
\* its local variables; st.seen is the set of local arrays the loop has had
\* since a cursor last moved.
WalkStep(h, cx, st) ==
  LET child1 == st.child1Array[st.child1pos + 1]
      child2 == h[cx.node2].childNodes[st.child2pos + 1]
      elem1 == h[child1].nodeType = ELEMENT_NODE
      elem2 == h[child2].nodeType = ELEMENT_NODE
      key1 == KeyOf(h, child1)
      key2 == KeyOf(h, child2)
      in1 == KeyStr(key2) \in DOMAIN cx.keyElementIndexNode1
      in2 == KeyStr(key1) \in DOMAIN cx.keyElementIndexNode2
      insert == Patch("insert-node", cx.node1, child2, BeforePos(st))
      remove == Patch("remove-node", child1, 0, -1)
      inserted(s) == [s EXCEPT !.result = Append(@, insert),
                               !.insertions = @ + 1, !.child2pos = @ + 1, !.seen = {}]
      removed(s) == [s EXCEPT !.result = Append(@, remove),
                              !.child1pos = @ + 1, !.deletions = @ + 1, !.seen = {}]
      sub == Diff(h, child1, child2, cx.pol)
      compared(s) == [s EXCEPT !.result = @ \o sub.patches,
                               !.calls = @ \o sub.calls,
                               !.diverged = sub.diverged,
                               !.child1pos = @ + 1, !.child2pos = @ + 1, !.seen = {}]
  IN IF elem1 /\ elem2 THEN
       IF key1 # key2 THEN
         IF in2 /\ in1 THEN
           LET pos == cx.keyElementIndexNode1[KeyStr(key2)]
               arr == SwapArrayElements(st.child1Array, st.child1pos, pos)
               swap == Patch("swap-nodes", child1, h[cx.node1].childNodes[pos + 1], -1)
           IN [st EXCEPT !.result = Append(@, swap),
                         !.child1Array = arr,
                         !.seen = @ \cup {st.child1Array},
                         !.diverged = arr \in (st.seen \cup {st.child1Array})]
         ELSE
           LET s1 == IF ~in1 THEN inserted(st) ELSE st
           IN IF ~in2 THEN removed(s1) ELSE s1
       ELSE compared(st)
     ELSE IF ~elem1 /\ elem2 THEN removed(st)
     ELSE IF elem1 /\ ~elem2 THEN inserted(st)
     ELSE compared(st)

WalkRunning(h, cx, st) ==
  /\ ~st.diverged
  /\ st.child1pos < Len(h[cx.node1].childNodes)
  /\ st.child2pos < Len(h[cx.node2].childNodes)

Walk(h, cx, st) == IF WalkRunning(h, cx, st) THEN Walk(h, cx, WalkStep(h, cx, st)) ELSE st

WalkContext(h, node1, node2, pol) ==
  [node1 |-> node1, node2 |-> node2, pol |-> pol,
   keyElementIndexNode1 |-> BuildChildrenKeyIndex(h, node1),
   keyElementIndexNode2 |-> BuildChildrenKeyIndex(h, node2)]

WalkStart(h, node1) ==
  [child1pos |-> 0, child2pos |-> 0, insertions |-> 0, deletions |-> 0,
   child1Array |-> h[node1].childNodes, result |-> <<>>, calls |-> <<>>,
   seen |-> {}, diverged |-> FALSE]

\* What follows the while loop: the old children left over are removed (they
\* are read from node1.childNodes, not from the local array), or else the
\* new children left over are appended.
WalkRest(h, cx, st) ==
  LET kids1 == h[cx.node1].childNodes
      kids2 == h[cx.node2].childNodes
  IN IF st.child1pos < Len(kids1)
     THEN [i \in 1..(Len(kids1) - st.child1pos) |->
             Patch("remove-node", kids1[st.child1pos + i], 0, -1)]
     ELSE IF st.child2pos < Len(kids2)
     THEN [j \in 1..(Len(kids2) - st.child2pos) |->
             Patch("append-child", cx.node1, kids2[st.child2pos + j], -1)]
     ELSE <<>>

CompareChildren(h, node1, node2, pol) ==
  LET cx == WalkContext(h, node1, node2, pol)
      st == Walk(h, cx, WalkStart(h, node1))
  IN IF st.diverged THEN DiffResult(st.result, st.calls, TRUE)
     ELSE DiffResult(st.result \o WalkRest(h, cx, st), st.calls, FALSE)

\* What diff returns without looking at the children: the one patch that
\* replaces node1 by node2, and the empty list.
ReplaceResult(node1, node2, calls) ==
  DiffResult(<<Patch("replace-subtree", node1, node2, -1)>>, calls, FALSE)

SkipResult(node1, node2, calls) == DiffResult(<<>>, calls, FALSE)

Diff(h, node1, node2, pol) ==
  LET actionToDo == IF pol.given THEN ComparePolicy(h, pol, node1, node2) ELSE "DIFF"
      calls == IF pol.given
               THEN <<[node1 |-> node1, node2 |-> node2, verdict |-> actionToDo]>>
               ELSE <<>>
      replace == Patch("replace-subtree", node1, node2, -1)
  IN IF actionToDo = "SKIP" THEN SkipResult(node1, node2, calls)
     ELSE IF actionToDo = "REPLACE" THEN ReplaceResult(node1, node2, calls)
     ELSE IF node1 # 0 /\ h[node1].tagName = h[node2].tagName
                       /\ h[node1].nodeType = h[node2].nodeType
     THEN LET sub == IF Len(h[node1].childNodes) > 0 \/ Len(h[node2].childNodes) > 0
                     THEN CompareChildren(h, node1, node2, pol)
                     ELSE DiffResult(<<>>, <<>>, FALSE)
          IN IF sub.diverged THEN DiffResult(sub.patches, calls \o sub.calls, TRUE)
             ELSE IF /\ h[node1].nodeType \in {TEXT_NODE, COMMENT_NODE}
                     /\ h[node1].nodeValue # h[node2].nodeValue
               THEN DiffResult(<<Patch("node-value", node1, node2, -1)>>, calls \o sub.calls, FALSE)
             ELSE IF ~EqualAttributes(h, node1, node2)
               THEN DiffResult(Append(sub.patches, Patch("attributes", node1, node2, -1)),
                               calls \o sub.calls, FALSE)
             ELSE DiffResult(sub.patches, calls \o sub.calls, FALSE)
     ELSE DiffResult(<<replace>>, calls, FALSE)

\* ------------------------------------------------------------------------
\* TreeComparator: applyPatches
\* ------------------------------------------------------------------------

\* The outcome of a step that may throw: the store it leaves and whether a
\* TypeError was raised (a property read on null or undefined).
Outcome(h, error) == [heap |-> h, error |-> error]

\* document.createElement("div")
CreateElement(h, tag) == Build(h, El(tag, <<>>, <<>>))

\* _swapElements with its third statement left out: obj2 stays where it was.
SwapElementsOneWay(h, obj1, obj2) ==
  IF obj1 = 0 \/ ParentOf(h, obj1) = 0 THEN Outcome(h, TRUE)
  ELSE LET t == CreateElement(h, "div")
           temp == t.root
           h1 == InsertBefore(t.heap, ParentOf(t.heap, obj1), temp, obj1)
       IN IF obj2 = 0 \/ ParentOf(h1, obj2) = 0 THEN Outcome(h1, TRUE)
          ELSE LET h2 == InsertBefore(h1, ParentOf(h1, obj2), obj1, obj2)
               IN Outcome(RemoveChild(h2, ParentOf(h2, temp), temp), FALSE)

\* _swapElements(obj1, obj2), statement by statement.
SwapElements(h, obj1, obj2) ==
  IF obj1 = 0 \/ ParentOf(h, obj1) = 0 THEN Outcome(h, TRUE)
  ELSE LET t == CreateElement(h, "div")
           temp == t.root
           h1 == InsertBefore(t.heap, ParentOf(t.heap, obj1), temp, obj1)
       IN IF obj2 = 0 \/ ParentOf(h1, obj2) = 0 THEN Outcome(h1, TRUE)
          ELSE LET h2 == InsertBefore(h1, ParentOf(h1, obj2), obj1, obj2)
                   h3 == InsertBefore(h2, ParentOf(h2, temp), obj2, temp)
               IN Outcome(RemoveChild(h3, ParentOf(h3, temp), temp), FALSE)

\* The two loops of the 'attributes' case: every attribute of the replacement
\* is set on the target, unless its name is in skipAttributes and the target
\* has it already; then every attribute of the target the replacement lacks
\* is removed.
RECURSIVE SetAttributes(_, _, _, _)
SetAttributes(target, source, skipAttributes, i) ==
  IF i > Len(source) THEN target
  ELSE LET name == source[i][1]
       IN SetAttributes(
            IF name \notin skipAttributes \/ ~HasAttr(target, name)
            THEN SetAttr(target, name, source[i][2]) ELSE target,
            source, skipAttributes, i + 1)

\* The first loop alone: nothing is removed.
PatchAttributesKeeping(target, source, skipAttributes) ==
  SetAttributes(target, source, skipAttributes, 1)

PatchAttributes(target, source, skipAttributes) ==
  SelectSeq(SetAttributes(target, source, skipAttributes, 1),
            LAMBDA a : HasAttr(source, a[1]))

\* The 'node-value' case: the first marker of the target's value is kept and
\* the replacement's whole value follows it.
PatchNodeValue(old, new) ==
  NodeValue((IF Len(old.marks) > 0 THEN <<old.marks[1]>> ELSE <<>>) \o new.marks, new.text)

\* One turn of the loop of applyPatches, on a patch already mapped.
ApplyPatch(h, patch, skipAttributes) ==
  LET toReplace == patch.toReplace
      replacement == patch.replacement
  IN CASE patch.mode = "attributes" ->
            IF toReplace = 0 \/ replacement = 0 THEN Outcome(h, TRUE)
            ELSE Outcome([h EXCEPT ![toReplace].attributes =
                            PatchAttributes(@, h[replacement].attributes, skipAttributes)],
                         FALSE)
       [] patch.mode = "node-value" ->
            IF toReplace = 0 \/ replacement = 0 THEN Outcome(h, TRUE)
            ELSE Outcome([h EXCEPT ![toReplace].nodeValue =
                            PatchNodeValue(@, h[replacement].nodeValue)], FALSE)
       [] patch.mode = "remove-node" ->
            IF toReplace = 0 \/ ParentOf(h, toReplace) = 0 THEN Outcome(h, TRUE)
            ELSE Outcome(RemoveChild(h, ParentOf(h, toReplace), toReplace), FALSE)
       [] patch.mode = "append-child" ->
            IF toReplace = 0 \/ replacement = 0 THEN Outcome(h, TRUE)
            ELSE Outcome(AppendChild(h, toReplace, replacement), FALSE)
       [] patch.mode = "insert-node" ->
            IF toReplace = 0 \/ replacement = 0 THEN Outcome(h, TRUE)
            ELSE IF Len(h[toReplace].childNodes) = 0
              THEN Outcome(AppendChild(h, toReplace, replacement), FALSE)
            ELSE Outcome(InsertBefore(h, toReplace, replacement,
                           IF patch.beforePos < Len(h[toReplace].childNodes)
                           THEN h[toReplace].childNodes[patch.beforePos + 1] ELSE 0),
                         FALSE)
       [] patch.mode = "swap-nodes" -> SwapElements(h, toReplace, replacement)
       [] OTHER ->
            IF toReplace = 0 \/ ParentOf(h, toReplace) = 0 \/ replacement = 0
            THEN Outcome(h, TRUE)
            ELSE Outcome(ReplaceChild(h, ParentOf(h, toReplace), replacement, toReplace), FALSE)

\* applyPatches(patches, skipAttributes) with no patchMapping: the patches
\* from the i-th on, in order; a TypeError ends the call.
RECURSIVE ApplyPatches(_, _, _, _)
ApplyPatches(h, patches, skipAttributes, i) ==
  IF i > Len(patches) THEN Outcome(h, FALSE)
  ELSE LET o == ApplyPatch(h, patches[i], skipAttributes)
       IN IF o.error THEN o ELSE ApplyPatches(o.heap, patches, skipAttributes, i + 1)

\* ------------------------------------------------------------------------
\* Structure of a tree, for comparing trees
\* ------------------------------------------------------------------------

\* What two structurally equal trees share: node kind, tag name, text (the
\* markers left out), attribute mapping (frontyid left out), children in
\* order.
AttrMap(attrs) == {<<a[1], a[2]>> : a \in {attrs[i] : i \in {j \in 1..Len(attrs) : attrs[j][1] # "frontyid"}}}

RECURSIVE Shape(_, _)
Shape(h, n) ==
  [nodeType |-> h[n].nodeType, tagName |-> h[n].tagName,
   text |-> h[n].nodeValue.text, attributes |-> AttrMap(h[n].attributes),
   kids |-> [i \in 1..Len(h[n].childNodes) |-> Shape(h, h[n].childNodes[i])]]

\* The structure of a tree with the child-component slots closed: an element
\* below the root whose id is in slotIds counts as a slot, whatever it holds.
RECURSIVE ShapeOutsideSlots(_, _, _, _)
ShapeOutsideSlots(h, n, slotIds, isRoot) ==
  IF ~isRoot /\ IdOf(h, n) \in slotIds THEN [slot |-> IdOf(h, n)]
  ELSE [nodeType |-> h[n].nodeType, tagName |-> h[n].tagName,
        text |-> h[n].nodeValue.text, attributes |-> AttrMap(h[n].attributes),
        kids |-> [i \in 1..Len(h[n].childNodes) |->
                    ShapeOutsideSlots(h, h[n].childNodes[i], slotIds, FALSE)]]

\* ------------------------------------------------------------------------
\* The page
\* ------------------------------------------------------------------------

\* The page before any component has rendered: the body holds the element
\* the main component renders into.
Page == Build(<<>>, El("body", <<>>, <<El("div", <<<<"id", "p">>>>, <<>>)>>))

\* The document: ids are looked up below it.
Document == Page.root

\* document.getElementById(id): the first element in document order that
\* carries the id; 0 (null) when there is none.
GetElementById(h, id) ==
  LET nodes == Subtree(h, Document)
      hits == {i \in 1..Len(nodes) : IdOf(h, nodes[i]) = id}
  IN IF ~Truthy(id) \/ hits = {} THEN 0
     ELSE nodes[CHOOSE i \in hits : \A j \in hits : i <= j]

\* The nodes of the document, each with what it holds: two stores agree on
\* it exactly when the live tree is the same nodes with the same contents.
LiveTree(h) ==
  LET nodes == Subtree(h, Document)
  IN [n \in {nodes[i] : i \in 1..Len(nodes)} |-> h[n]]

\* ------------------------------------------------------------------------
\* Component: the private methods
\* ------------------------------------------------------------------------

\* A lookup in an object used as a map: 0 (undefined) for a missing key.
Lookup(map, key) == IF key \in DOMAIN map THEN map[key] ELSE 0

\* _tagTree(tree): elements get frontyid = counter, text and comment nodes
\* get the prefix __FTN__:counter#, in document order; the counter goes on.
RECURSIVE TagTree(_, _, _), TagKids(_, _, _, _)
TagKids(h, counter, ns, i) ==
  IF i > Len(ns) THEN [heap |-> h, counter |-> counter]
  ELSE LET t == TagTree(h, counter, ns[i])
       IN TagKids(t.heap, t.counter, ns, i + 1)

TagTree(h, counter, tree) ==
  IF h[tree].nodeType = ELEMENT_NODE
  THEN TagKids([h EXCEPT ![tree].attributes = SetAttr(@, "frontyid", ToString(counter))],
               counter + 1, h[tree].childNodes, 1)
  ELSE [heap |-> [h EXCEPT ![tree].nodeValue.marks = <<ToString(counter)>> \o @],
        counter |-> counter + 1]

\* _indexNodes(root): the frontyid of every element and the first marker of
\* every text node are taken off the node and entered in the mapping.  A
\* text node without a marker makes match null and match[1] a TypeError.
Indexed(h, elements, text_nodes, error) ==
  [heap |-> h, elements |-> elements, text_nodes |-> text_nodes, error |-> error]

RECURSIVE IndexNodes(_, _, _, _), IndexKids(_, _, _, _, _)
IndexKids(h, elements, text_nodes, ns, i) ==
  IF i > Len(ns) THEN Indexed(h, elements, text_nodes, FALSE)
  ELSE LET x == IndexNodes(h, elements, text_nodes, ns[i])
       IN IF x.error THEN x
          ELSE IndexKids(x.heap, x.elements, x.text_nodes, ns, i + 1)

IndexNodes(h, elements, text_nodes, root) ==
  IF h[root].nodeType = ELEMENT_NODE
  THEN IF HasAttr(h[root].attributes, "frontyid")
       THEN LET frontyid == GetAttr(h[root].attributes, "frontyid")
            IN IndexKids([h EXCEPT ![root].attributes = RemoveAttr(@, "frontyid")],
                         (frontyid :> root) @@ elements, text_nodes,
                         h[root].childNodes, 1)
       ELSE IndexKids(h, elements, text_nodes, h[root].childNodes, 1)
  ELSE IF h[root].nodeValue.marks = <<>>
       THEN Indexed(h, elements, text_nodes, TRUE)
       ELSE LET id == Head(h[root].nodeValue.marks)
            IN Indexed([h EXCEPT ![root].nodeValue.marks = Tail(@)],
                       elements, (id :> root) @@ text_nodes, FALSE)

\* _resolveRealNode(node): the real node of a virtual one.  A text node
\* without a marker is a TypeError (exec gives null); an id the mapping lacks
\* gives undefined, which is not null, so only an element without frontyid
\* is looked up by its id.
ResolveRealNode(h, me, node) ==
  IF h[node].nodeType \in {TEXT_NODE, COMMENT_NODE}
  THEN IF h[node].nodeValue.marks = <<>> THEN [node |-> 0, error |-> TRUE]
       ELSE [node |-> Lookup(me.text_nodes, Head(h[node].nodeValue.marks)),
             error |-> FALSE]
  ELSE IF HasAttr(h[node].attributes, "frontyid")
       THEN [node |-> Lookup(me.elements, GetAttr(h[node].attributes, "frontyid")),
             error |-> FALSE]
       ELSE [node |-> GetElementById(h, IdOf(h, node)), error |-> FALSE]

\* The child of a live node at a place; 0 when there is none.
KidAt(h, l, i) == IF l # 0 /\ i <= Len(h[l].childNodes) THEN h[l].childNodes[i] ELSE 0

\* The nodes of a virtual tree that carry no identifier or whose identifier
\* the mapping does not resolve to the live node at their place, the
\* interiors of the slots of the child components left out.
RECURSIVE Unresolved(_, _, _, _)
Unresolved(h, me, v, l) ==
  (IF /\ l # 0
      /\ ~ResolveRealNode(h, me, v).error
      /\ (h[v].nodeType = ELEMENT_NODE => HasAttr(h[v].attributes, "frontyid"))
      /\ ResolveRealNode(h, me, v).node = l
   THEN {} ELSE {v})
  \cup (IF h[v].nodeType = ELEMENT_NODE /\ IdOf(h, v) \notin DOMAIN me.childComponentIds
        THEN UNION {Unresolved(h, me, h[v].childNodes[i], KidAt(h, l, i)) :
                      i \in 1..Len(h[v].childNodes)}
        ELSE {})

\* _saveChildNodes(): the live node of every child component whose id is in
\* the document, by id.
SaveChildNodes(h, comps, c) ==
  LET ids == {comps[comps[c].childComponents[i]].htmlNodeId :
                i \in 1..Len(comps[c].childComponents)}
  IN [id \in {x \in ids : GetElementById(h, x) # 0} |-> GetElementById(h, id)]

\* _restoreChildNodes(savedChildNodes): child by child, the node that now
\* carries the child's id gives way to the saved one.
RestoreNothing(h, comps, c, savedChildNodes, i) == h

RECURSIVE RestoreChildNodes(_, _, _, _, _)
RestoreChildNodes(h, comps, c, savedChildNodes, i) ==
  IF i > Len(comps[c].childComponents) THEN h
  ELSE LET childId == comps[comps[c].childComponents[i]].htmlNodeId
           currentComponentNode == GetElementById(h, childId)
           h1 == IF /\ currentComponentNode # 0
                    /\ childId \in DOMAIN savedChildNodes
                    /\ savedChildNodes[childId] # currentComponentNode
                 THEN ReplaceChild(h, ParentOf(h, currentComponentNode),
                                   savedChildNodes[childId], currentComponentNode)
                 ELSE h
       IN RestoreChildNodes(h1, comps, c, savedChildNodes, i + 1)

\* ------------------------------------------------------------------------
\* Component: render
\* ------------------------------------------------------------------------

\* What a render leaves behind for the properties below.  The entry is made
\* when the renderer function is called, and filled in when _renderNewTree
\* comes to its end:
\*   stopped        the stopped flag when the renderer function was called
\*   rendererCalls  how often the renderer function was called
\*   output         what it returned
\*   sameOutput     whether that is what the render before returned
\*   completed      _renderNewTree came to its end
\*   patches, verdicts   what diff gave, and what the policy answered: per
\*                  compared pair the verdict, the two nodes, their ids and
\*                  the nodes below each of them
\*   childIds       the ids of this.childComponentIds
\*   patched        whether the patches were applied, so that the listeners
\*                  and the child components had their turn
\*   steps          the statements of _renderNewTree that were run, in the
\*                  order in which they were run
\*   failure        what is kept of a TypeError that ended the patching of
\*                  the live tree
\*   saved          what _saveChildNodes gave
\*   kept           per saved id, the live node that carries the id at the end
\*   intact         per saved id, whether the saved node's subtree is as it was
\*   mutated        whether the live tree was changed
\*   unresolved     the nodes of the previous virtual tree that the mapping
\*                  does not resolve to their live node, at the end
\*   snapshot, live the structure of the previous virtual tree and of the live
\*                  subtree at the target, at the end
RenderRecord(c, stopped, rendererCalls, output, sameOutput) ==
  [comp |-> c, stopped |-> stopped, rendererCalls |-> rendererCalls,
   output |-> output, sameOutput |-> sameOutput, completed |-> FALSE,
   firstRender |-> FALSE, patches |-> <<>>, verdicts |-> <<>>, childIds |-> {},
   patched |-> FALSE, steps |-> <<>>, failure |-> <<>>, saved |-> <<>>,
   kept |-> <<>>, intact |-> <<>>, mutated |-> FALSE, unresolved |-> {},
   snapshot |-> <<>>, live |-> <<>>]

\* The world the methods act on: the node store, the components, the
\* observers and the data of the models, the renders of the running handler,
\* whether an exception is on its way up, whether a loop will not end.
Raise(w) == [w EXCEPT !.error = TRUE]

\* A statement of _renderNewTree has been run by the render at k.
Step(w, k, name) == [w EXCEPT !.trace[k].steps = Append(@, name)]

Halted(w) == w.error \/ w.hung

\* The loop at the head of a re-render: every mapped element that carries the
\* id of a child component is looked up again by that id.  Keys are visited
\* in ascending order; a mapping left null by an earlier render is a
\* TypeError.
RECURSIVE UpdateMappings(_, _, _, _)
UpdateMappings(h, me, elements, n) ==
  IF n >= me.counter THEN [elements |-> elements, error |-> FALSE]
  ELSE LET frontyId == ToString(n)
       IN IF frontyId \notin DOMAIN elements THEN UpdateMappings(h, me, elements, n + 1)
          ELSE IF elements[frontyId] = 0 THEN [elements |-> elements, error |-> TRUE]
          ELSE LET id == GetAttr(h[elements[frontyId]].attributes, "id")
               IN IF id # Null /\ id \in DOMAIN me.childComponentIds
                  THEN UpdateMappings(h, me,
                         [elements EXCEPT ![frontyId] = GetElementById(h, id)], n + 1)
                  ELSE UpdateMappings(h, me, elements, n + 1)

\* The patchMapping callback of _renderNewTree: the patch with its nodes
\* turned into real ones.  The replacement of a patch that is neither
\* node-value nor swap-nodes is tagged (on a re-render), cloned, and, unless
\* the patch is an attributes patch, indexed.  The steps follow one another
\* as the statements of the callback do, each taking what the one before
\* gave.
Mapped(h, me, patch, error) == [heap |-> h, me |-> me, patch |-> patch, error |-> error]

RealPatch(patch, toReplace, replacement) ==
  [patch EXCEPT !.toReplace = toReplace, !.replacement = replacement]

\* The elements of a subtree that carry a fronty-component attribute, in the
\* order in which _indexNodes pushes them to
\* _nodesWithFrontyComponentAttribute (a node before its children).
IsMarked(h, n) ==
  h[n].nodeType = ELEMENT_NODE /\ HasAttr(h[n].attributes, "fronty-component")

MarkedNodes(h, root) == SelectSeq(Subtree(h, root), LAMBDA n : IsMarked(h, n))

\* this._indexNodes(patch.replacement), for a clone that is not the source
\* of an attributes patch
MapIndexed(me, patch, to, counter, root, index) ==
  Mapped(index.heap,
         [me EXCEPT !.counter = counter, !.elements = index.elements,
                    !.text_nodes = index.text_nodes,
                    !.marked = @ \o MarkedNodes(index.heap, root)],
         RealPatch(patch, to, root), index.error)

\* patch.replacement = patch.replacement.cloneNode(true)
MapCloned(me, patch, to, counter, clone) ==
  IF patch.mode = "attributes"
  THEN Mapped(clone.heap, [me EXCEPT !.counter = counter],
              RealPatch(patch, to, clone.root), FALSE)
  ELSE MapIndexed(me, patch, to, counter, clone.root,
                  IndexNodes(clone.heap, me.elements, me.text_nodes, clone.root))

\* if (!firstRender) this._tagTree(patch.replacement)
MapTagged(me, patch, to, tagged) ==
  MapCloned(me, patch, to, tagged.counter, CloneNode(tagged.heap, patch.replacement))

\* patch.replacement = this._resolveRealNode(patch.replacement), in
\* swap-nodes mode
MapSwapped(h, me, patch, to, other) ==
  Mapped(h, me, RealPatch(patch, to, other.node), other.error)

\* patch.toReplace = this._resolveRealNode(patch.toReplace) is done
MapResolved(h, me, patch, firstRender, to) ==
  IF to.error THEN Mapped(h, me, patch, TRUE)
  ELSE IF patch.mode = "node-value" \/ patch.replacement = 0
    THEN Mapped(h, me, RealPatch(patch, to.node, patch.replacement), FALSE)
  ELSE IF patch.mode = "swap-nodes"
    THEN MapSwapped(h, me, patch, to.node, ResolveRealNode(h, me, patch.replacement))
  ELSE MapTagged(me, patch, to.node,
                 IF firstRender THEN [heap |-> h, counter |-> me.counter]
                 ELSE TagTree(h, me.counter, patch.replacement))

PatchMapping(h, me, patch, firstRender) ==
  MapResolved(h, me, patch, firstRender, ResolveRealNode(h, me, patch.toReplace))

\* applyPatches(patches, ['frontyid'], patchMapping): each patch is mapped
\* and then applied, in order; a TypeError ends the call.  What is kept of a
\* call that a TypeError ended: the patch it was at, and the store and the
\* component as they were when that patch was taken from the list.
Patched(h, me, error) == [heap |-> h, me |-> me, error |-> error]

Failed(h, me, patch, before) ==
  [heap |-> h, me |-> me, error |-> TRUE, patch |-> patch, before |-> before]

RECURSIVE ApplyRealPatches(_, _, _, _, _), ApplyRealPatch(_, _, _, _, _, _), ApplyMappedPatch(_, _, _, _, _)
ApplyRealPatch(me, patches, firstRender, i, o, before) ==
  IF o.error THEN Failed(o.heap, me, patches[i], before)
  ELSE ApplyRealPatches(o.heap, me, patches, firstRender, i + 1)

ApplyMappedPatch(patches, firstRender, i, m, before) ==
  IF m.error THEN Failed(m.heap, m.me, patches[i], before)
  ELSE ApplyRealPatch(m.me, patches, firstRender, i,
                      ApplyPatch(m.heap, m.patch, {"frontyid"}), before)

ApplyRealPatches(h, me, patches, firstRender, i) ==
  IF i > Len(patches) THEN Patched(h, me, FALSE)
  ELSE ApplyMappedPatch(patches, firstRender, i,
                        PatchMapping(h, me, patches[i], firstRender),
                        [heap |-> h, me |-> me])

\* What the policy answered, pair by pair, with what the properties below
\* need of the nodes as they were when the trees were compared.
Verdicts(h, calls) ==
  [i \in 1..Len(calls) |->
     [verdict |-> calls[i].verdict,
      node1 |-> calls[i].node1,
      node2 |-> calls[i].node2,
      id1 |-> IdOf(h, calls[i].node1),
      id2 |-> IdOf(h, calls[i].node2),
      below |-> Range(Tail(Subtree(h, calls[i].node1))),
      below2 |-> Range(Tail(Subtree(h, calls[i].node2)))]]

\* Whether the subtree of a node is in h1 the nodes it was in h0, each
\* holding what it held.
SameNodes(h0, h1, nodes0, nodes1) ==
  nodes1 = nodes0 /\ \A i \in 1..Len(nodes0) : h1[nodes0[i]] = h0[nodes0[i]]

SameSubtree(h0, h1, n) == SameNodes(h0, h1, Subtree(h0, n), Subtree(h1, n))

\* The entry of a render that came to its end.  h0 is the store when
\* _renderNewTree was entered, h2 the store when the trees were compared,
\* h3 the store at the end.
Completed(entry, me, firstRender, previous, delta, saved, h0, h2, h3) ==
  [entry EXCEPT
     !.completed = TRUE,
     !.patched = TRUE,
     !.firstRender = firstRender,
     !.patches = delta.patches,
     !.verdicts = Verdicts(h2, delta.calls),
     !.childIds = DOMAIN me.childComponentIds,
     !.saved = saved,
     !.kept = [id \in DOMAIN saved |-> GetElementById(h3, id)],
     !.intact = [id \in DOMAIN saved |-> SameSubtree(h0, h3, saved[id])],
     !.mutated = LiveTree(h3) # LiveTree(h0),
     !.unresolved = Unresolved(h3, me, previous, GetElementById(h3, me.htmlNodeId)),
     !.snapshot = ShapeOutsideSlots(h3, previous, DOMAIN me.childComponentIds, TRUE),
     !.live = IF GetElementById(h3, me.htmlNodeId) = 0 THEN <<>>
              ELSE ShapeOutsideSlots(h3, GetElementById(h3, me.htmlNodeId),
                                     DOMAIN me.childComponentIds, TRUE)]

\* _renderNewTree(newTree), statement by statement; k is the place of this
\* render in w.trace.  The components of the model have no child tags; the
\* afterRender hook is empty.

\* _updateEventListeners(): the dispatcher of the component is taken from
\* and added to the element that carries the component's id, once for every
\* listener; a node holds a listener of a type at most once.
\* _updateEventListeners() that leaves the elements as they are
KeepEventListeners(w, c, rootNode) == w

UpdateEventListeners(w, c, rootNode) ==
  IF rootNode = 0 THEN w
  ELSE [w EXCEPT !.attached =
          @ \cup {<<rootNode, w.comps[c].eventListeners[i].eventType, c>> :
                    i \in 1..Len(w.comps[c].eventListeners)}]

RECURSIVE CreateChildComponents(_, _)

\* this.afterRender() (empty); this.rendering = false.  An exception raised
\* by _createChildComponents has ended the render before.
RenderCreated(w, c, k) ==
  IF Halted(w) THEN [w EXCEPT !.trace[k].completed = FALSE]
  ELSE Step(Step([w EXCEPT !.comps[c].rendering = FALSE], k, "afterRender"), k, "clear")

\* _createChildComponents() before _updateEventListeners()
RenderChildrenFirst(w, c, k) ==
  RenderCreated(
    Step(UpdateEventListeners(Step(CreateChildComponents(w, c), k, "children"), c,
                              GetElementById(w.dom, w.comps[c].htmlNodeId)),
         k, "listeners"),
    c, k)

\* this._previousVirtualDOM is set and the child nodes are restored; then
\* _updateEventListeners() and _createChildComponents()
RenderListening(w, c, k) ==
  RenderCreated(
    Step(CreateChildComponents(
           Step(UpdateEventListeners(w, c, GetElementById(w.dom, w.comps[c].htmlNodeId)),
                k, "listeners"),
           c),
         k, "children"),
    c, k)

RenderEnd(w, c, k, firstRender, previous, delta, saved, me, h2, h3) ==
  RenderListening(
    [w EXCEPT !.dom = h3,
              !.comps[c] = [me EXCEPT !.prev = previous],
              !.trace[k] = Completed(@, me, firstRender, previous, delta, saved,
                                     w.dom, h2, h3)],
    c, k)

\* TreeComparator.applyPatches(patches, ['frontyid']) on the previous virtual
\* tree is done (on a first render there is none: the new tree is the
\* snapshot and no child node is put back)
RenderReplayed(w, c, k, firstRender, previous, delta, saved, me, h2, virtual) ==
  IF virtual.error THEN Raise([w EXCEPT !.dom = virtual.heap, !.comps[c] = me])
  ELSE RenderEnd(IF firstRender THEN w ELSE Step(w, k, "restore"),
                 c, k, firstRender, previous, delta, saved, me, h2,
                 IF firstRender THEN virtual.heap
                 ELSE RestoreChildNodes(virtual.heap, w.comps, c, saved, 1))

\* Whether _resolveRealNode gives no node for a node of a patch: it throws,
\* or gives null or undefined.
NotResolved(h, me, node) ==
  ResolveRealNode(h, me, node).error \/ ResolveRealNode(h, me, node).node = 0

\* What is kept of a call of applyPatches on the live tree that a TypeError
\* ended: the mode of the patch, whether the node to replace or the other
\* node of a swap was not resolved, and whether the live tree, the previous
\* virtual tree and the mapping are as they were when the patch was taken
\* from the list.
Failure(real, previous) ==
  [mode |-> real.patch.mode,
   unresolved |->
     \/ NotResolved(real.before.heap, real.before.me, real.patch.toReplace)
     \/ /\ real.patch.mode = "swap-nodes"
        /\ NotResolved(real.before.heap, real.before.me, real.patch.replacement),
   liveKept |-> LiveTree(real.heap) = LiveTree(real.before.heap),
   snapshotKept |-> previous = 0 \/ SameSubtree(real.before.heap, real.heap, previous),
   mapKept |-> /\ real.me.elements = real.before.me.elements
               /\ real.me.text_nodes = real.before.me.text_nodes]

\* the patches are applied to the real DOM
RenderPatched(w, c, newTree, k, firstRender, currentTree, delta, saved, h2, real) ==
  IF real.error
  THEN Raise([w EXCEPT !.dom = real.heap, !.comps[c] = real.me,
                       !.trace[k].failure = Failure(real, w.comps[c].prev)])
  ELSE RenderReplayed(IF firstRender THEN w ELSE Step(w, k, "patch-snapshot"),
                      c, k, firstRender,
                      IF firstRender THEN newTree ELSE currentTree,
                      delta, saved, real.me, h2,
                      IF firstRender THEN [heap |-> real.heap, error |-> FALSE]
                      ELSE ApplyPatches(real.heap, delta.patches, {"frontyid"}, 1))

\* TreeComparator.diff(currentTree, newTree, policy) is done
RenderCompared(w, c, newTree, k, firstRender, currentTree, saved, me, h2, delta) ==
  IF delta.diverged THEN [w EXCEPT !.dom = h2, !.comps[c] = me, !.hung = TRUE]
  ELSE RenderPatched(Step(w, k, "patch-live"), c, newTree, k, firstRender, currentTree,
                     delta, saved, h2,
                     ApplyRealPatches(h2, me, delta.patches, firstRender, 1))

\* newTree.setAttribute('id', this.getHtmlNodeId()) is done
RenderIdentified(w, c, newTree, k, firstRender, currentTree, saved, me, h2) ==
  RenderCompared(Step(w, k, "diff"), c, newTree, k, firstRender, currentTree, saved,
                 me, h2,
                 Diff(h2, currentTree, newTree,
                      [given |-> TRUE, firstRender |-> firstRender,
                       childComponentIds |-> DOMAIN me.childComponentIds]))

\* the new tree is tagged, on the first render
RenderTagged(w, c, newTree, k, firstRender, currentTree, saved, me, tagged) ==
  RenderIdentified(w, c, newTree, k, firstRender, currentTree, saved,
                   [me EXCEPT !.counter = tagged.counter],
                   IF tagged.heap[newTree].nodeType = ELEMENT_NODE
                   THEN [tagged.heap EXCEPT ![newTree].attributes =
                                               SetAttr(@, "id", me.htmlNodeId)]
                   ELSE tagged.heap)

\* first render: the element of the component is emptied and the new tree
\* tagged
RenderFirst(w, me, newTree) ==
  TagTree([w.dom EXCEPT ![GetElementById(w.dom, me.htmlNodeId)].childNodes = <<>>],
          me.counter, newTree)

\* re-render: the mappings of the children are updated
RenderAgain(w, me) == UpdateMappings(w.dom, me, me.elements, 0)

\* the tree to compare with is chosen: the element of the component on a
\* first render, the previous virtual tree on a re-render
RenderBegun(w, c, newTree, k, saved, me, firstRender, upd) ==
  IF upd.error THEN Raise([w EXCEPT !.comps[c].elements = upd.elements])
  ELSE IF firstRender /\ GetElementById(w.dom, me.htmlNodeId) = 0 THEN Raise(w)
  ELSE RenderTagged(w, c, newTree, k, firstRender,
                    IF firstRender THEN GetElementById(w.dom, me.htmlNodeId)
                    ELSE me.prev,
                    saved, [me EXCEPT !.elements = upd.elements],
                    IF firstRender THEN RenderFirst(w, me, newTree)
                    ELSE [heap |-> w.dom, counter |-> me.counter])

\* var savedChildNodes = this._saveChildNodes() is done
RenderSaved(w, c, newTree, k, saved, me) ==
  RenderBegun(w, c, newTree, k, saved, me, me.prev = 0,
              IF me.prev = 0 THEN [elements |-> me.elements, error |-> FALSE]
              ELSE RenderAgain(w, me))

RenderNewTree(w, c, newTree, k) ==
  RenderSaved(Step(w, k, "save"), c, newTree, k, SaveChildNodes(w.dom, w.comps, c),
              w.comps[c])

\* The renderer function of a ModelComponent: the model renderer applied to
\* the data of its models (each component of the model has one model, whose
\* data is the markup to show).
Renderer(w, c) == w.data[w.comps[c].models[1]]

\* The main component renders a string (a compiled template), the item
\* component a node (a clone of a template tree), as in the benchmark; the
\* field string of a component says which of the two its renderer gives.
RendersString(c) == c = "main"

\* The parsing service: the string becomes the child of a fresh div.  (None
\* of the outputs of the model starts with a tr, td or th tag, which render
\* would wrap in a table first.)
Roots(html) == IF "roots" \in DOMAIN html THEN html.roots ELSE <<html>>

ParseHtml(h, html) ==
  LET elem == CreateElement(h, "div")
      built == BuildKids(elem.heap, Roots(html), 1, <<>>)
  IN [heap |-> [built.heap EXCEPT ![elem.root].childNodes = built.nodes],
      root |-> built.nodes[1]]

\* Whether the element a component renders into is its own to render into:
\* the component is the main one, or a registered child of the main one,
\* in whose output its element lies.
Owned(w, c) == c = "main" \/ Has(w.comps["main"].childComponents, c)

\* The test that ends render() before the renderer function is called.
NotRenderableIgnoringStopped(h, me) ==
  ~Truthy(me.htmlNodeId) \/ GetElementById(h, me.htmlNodeId) = 0

NotRenderable(h, me) ==
  me.stopped \/ ~Truthy(me.htmlNodeId) \/ GetElementById(h, me.htmlNodeId) = 0

\* render(), when the output is the child of newTree: for a string, more
\* than one child of newTree is an exception.
RenderAppended(w, c, root, newTree, k) ==
  IF w.comps[c].string /\ Len(w.dom[newTree].childNodes) > 1 THEN Raise(w)
  ELSE RenderNewTree(w, c, root, k)

\* render(), from the call of the renderer function on
RenderInto(w, c, htmlContents, root, newTree) ==
  RenderAppended(
    [w EXCEPT !.dom = AppendChild(newTree.heap, newTree.root, root),
              !.comps[c].rendering = TRUE,
              !.comps[c].lastOutput = htmlContents,
              !.nested = @ /\ Owned(w, c),
              !.missed = @ \ {c},
              !.trace = Append(@, RenderRecord(c, w.comps[c].stopped,
                                               IF w.comps[c].string THEN 2 ELSE 1,
                                               htmlContents,
                                               w.comps[c].lastOutput = htmlContents))],
    c, root, newTree.root, Len(w.trace) + 1)

RenderParsed(w, c, htmlContents, content) ==
  RenderInto(w, c, htmlContents, content.root, CreateElement(content.heap, "div"))

RenderContents(w, c, htmlContents) ==
  RenderParsed(w, c, htmlContents,
               IF w.comps[c].string THEN ParseHtml(w.dom, htmlContents)
               ELSE Build(w.dom, htmlContents))

\* The test that render() starts with: a render of the component is in
\* progress.
NeverRendering(me) == FALSE

Rendering(me) == me.rendering

RECURSIVE Render(_, _), NotifyObservers(_, _, _), Stop(_, _)

\* beforeRender(): a hook of the application.  w.hook is what it does the
\* one time it does something: nothing, a call of render() on its own
\* component, a set() of the component's first model that leaves the
\* data as they are, or a stop() of its own component.
BeforeRender(w, c) ==
  IF w.hook = "render"
  THEN Render([w EXCEPT !.hook = "none", !.reentered = w.hook], c)
  ELSE IF w.hook = "set"
  THEN NotifyObservers([w EXCEPT !.hook = "none", !.reentered = w.hook],
                       w.comps[c].models[1], 1)
  ELSE IF w.hook = "stop"
  THEN Stop([w EXCEPT !.hook = "none", !.reentered = w.hook], c)
  ELSE w

\* render(), from the call of the renderer function on, when the hook has
\* returned
\* this._parsingService.parse(html, callback) of the buffered parsing
\* service of a parent keeps the callback for its finish(); w.callback is
\* the kept callback that finish() is running, and a render entered with it
\* goes on where parse() was called, with the output it was called with.
Buffers(w, c) ==
  w.callback = <<>> /\ w.comps[c].string /\ w.comps[c].parsing # Null

RenderHooked(w, c) ==
  IF Halted(w) THEN w
  ELSE IF Buffers(w, c)
    THEN [w EXCEPT !.comps[w.comps[c].parsing].buffer =
                      Append(@, [comp |-> c, html |-> Renderer(w, c)])]
  ELSE RenderContents([w EXCEPT !.callback = <<>>], c,
                      IF w.callback = <<>> THEN Renderer(w, c) ELSE w.callback.html)

\* render()
Render(w, c) ==
  IF Halted(w) \/ (w.callback = <<>> /\ Rendering(w.comps[c])) THEN w
  ELSE IF w.callback = <<>> /\ NotRenderable(w.dom, w.comps[c])
    THEN [w EXCEPT !.missed = IF w.comps[c].stopped THEN @ ELSE @ \cup {c}]
  ELSE RenderHooked(IF w.callback = <<>>
                    THEN BeforeRender([w EXCEPT !.comps[c].rendering = TRUE], c)
                    ELSE w, c)

\* ------------------------------------------------------------------------
\* Model and the lifecycle of a ModelComponent
\* ------------------------------------------------------------------------

NotifyNoObservers(w, m, i) == w

\* notifyObservers(): the observers array is read afresh at every turn.
NotifyObservers(w, m, i) ==
  IF Halted(w) \/ i > Len(w.observers[m]) THEN w
  ELSE NotifyObservers(Render(w, w.observers[m][i]), m, i + 1)

\* addObserver(updater) on every model of the component
RECURSIVE AddObservers(_, _, _)
AddObservers(observers, c, models) ==
  IF models = <<>> THEN observers
  ELSE AddObservers([observers EXCEPT ![Head(models)] = Append(@, c)], c, Tail(models))

RemoveNoObservers(observers, c, models) == observers

\* removeObserver(updater) on every model of the component: the first entry
\* of the updater goes, if there is one.
RECURSIVE RemoveObservers(_, _, _)
RemoveObservers(observers, c, models) ==
  IF models = <<>> THEN observers
  ELSE RemoveObservers(
         [observers EXCEPT ![Head(models)] =
            IF Has(@, c) THEN RemoveAt(@, IndexOf(@, c)) ELSE @],
         c, Tail(models))

\* _resetVirtualDOM()
ResetVirtualDOM(me) ==
  [me EXCEPT !.prev = 0, !.counter = 0, !.elements = <<>>, !.text_nodes = <<>>,
             !.marked = <<>>]

\* setHtmlNodeId(htmlNodeId)
SetHtmlNodeId(w, c, htmlNodeId) ==
  [w EXCEPT !.comps[c] = ResetVirtualDOM([@ EXCEPT !.htmlNodeId = htmlNodeId])]

\* start() of a ModelComponent and of Component; the children are read from
\* the array at every turn.
RECURSIVE Start(_, _), StartChildren(_, _, _)
StartChildren(w, c, i) ==
  IF Halted(w) \/ i > Len(w.comps[c].childComponents) THEN w
  ELSE StartChildren(Start(w, w.comps[c].childComponents[i]), c, i + 1)

\* this.onStart(): the hook is empty; what is kept of its call is whether
\* start() found the component stopped and its element in the document, and
\* whether the render of the component has come to its end (the previous
\* virtual tree is set and no render is in progress).
OnStart(w, c, wasStopped, present) ==
  IF Halted(w) THEN w
  ELSE [w EXCEPT !.hooks =
          Append(@, [hook |-> "onStart", comp |-> c, id |-> w.comps[c].htmlNodeId,
                     wasStopped |-> wasStopped, present |-> present,
                     registered |-> \E p \in DOMAIN w.comps :
                                      Has(w.comps[p].childComponents, c),
                     rendered |-> w.comps[c].prev # 0 /\ ~w.comps[c].rendering])]

Start(w, c) ==
  IF Halted(w) THEN w
  ELSE IF ~w.comps[c].stopped
    THEN OnStart(w, c, FALSE, ~NotRenderableIgnoringStopped(w.dom, w.comps[c]))
  ELSE LET w1 == [w EXCEPT
                    !.observers = AddObservers(@, c, w.comps[c].models),
                    !.comps[c] = ResetVirtualDOM([@ EXCEPT !.stopped = FALSE])]
       IN OnStart(StartChildren(Render(w1, c), c, 1), c, TRUE,
                  ~NotRenderableIgnoringStopped(w.dom, w.comps[c]))

\* stop() of a ModelComponent and of Component
RECURSIVE StopChildren(_, _, _)
StopChildren(w, c, i) ==
  IF i > Len(w.comps[c].childComponents) THEN w
  ELSE StopChildren(Stop(w, w.comps[c].childComponents[i]), c, i + 1)

\* this.onStop(): the hook is empty; what is kept of its call is whether
\* stop() found the component stopped.
OnStop(w, c, wasStopped) ==
  [w EXCEPT !.hooks = Append(@, [hook |-> "onStop", comp |-> c,
                                 wasStopped |-> wasStopped])]

Stop(w, c) ==
  IF w.comps[c].stopped THEN OnStop(w, c, TRUE)
  ELSE LET w1 == [w EXCEPT
                    !.observers = RemoveObservers(@, c, w.comps[c].models),
                    !.comps[c].stopped = TRUE]
       IN OnStop(StopChildren(w1, c, 1), c, FALSE)

\* addChildComponent(component) without the alignment with the parent
AddChildComponentOnly(w, c, component) ==
  [w EXCEPT !.comps[c].childComponents = Append(@, component),
            !.comps[c].childComponentIds =
               (w.comps[component].htmlNodeId :> component) @@ @]

\* addChildComponent(component)
AddChildComponent(w, c, component) ==
  LET w1 == [w EXCEPT
               !.comps[c].childComponents = Append(@, component),
               !.comps[c].childComponentIds =
                  (w.comps[component].htmlNodeId :> component) @@ @]
  IN IF w.comps[c].stopped THEN Stop(w1, component) ELSE Start(w1, component)

\* removeChildComponent(component) that only renders
RemoveChildComponentKeeping(w, c, component) == Render(w, c)

\* removeChildComponent(component); component is Null for undefined
RemoveChildComponent(w, c, component) ==
  LET index == IndexOf(w.comps[c].childComponents, component)
      w1 == IF index # 0
            THEN LET stopped == Stop(w, component)
                 IN [stopped EXCEPT
                       !.comps[c].childComponents = RemoveAt(@, index),
                       !.comps[c].childComponentIds =
                          [id \in DOMAIN @ \ {w.comps[component].htmlNodeId} |-> @[id]]]
            ELSE w
  IN Render(w1, c)

\* new ModelComponent(renderer, model, htmlNodeId): the fields the
\* constructors set.  lastOutput is what the renderer function returned
\* last (nothing yet); marked is _nodesWithFrontyComponentAttribute, byClass
\* childComponentsByClassName, parsing the component whose buffered parsing
\* service is this._parsingService (Null for the default service), buffer
\* the callbacks of the buffered parsing service of the component, string
\* whether the renderer gives a string.
NewComponent(models, htmlNodeId, string) ==
  [htmlNodeId |-> htmlNodeId, models |-> models, stopped |-> TRUE,
   rendering |-> FALSE, childComponents |-> <<>>, childComponentIds |-> <<>>,
   prev |-> 0, counter |-> 0, elements |-> <<>>, text_nodes |-> <<>>,
   marked |-> <<>>, byClass |-> <<>>, eventListeners |-> <<>>,
   parsing |-> Null, buffer |-> <<>>, string |-> string, lastOutput |-> <<>>]

\* ------------------------------------------------------------------------
\* Component: the children a render creates and removes
\* ------------------------------------------------------------------------

\* addEventListener(eventType, nodesQuery, callback): the listener is kept,
\* and the dispatcher of the component is taken from and added to the
\* element that carries the component's id, if there is one.
Attached(w, c, eventType, rootNode) ==
  IF rootNode = 0 THEN w
  ELSE [w EXCEPT !.attached = @ \cup {<<rootNode, eventType, c>>}]

AddEventListener(w, c, eventType, nodesQuery) ==
  Attached([w EXCEPT !.comps[c].eventListeners =
                        Append(@, [eventType |-> eventType, query |-> nodesQuery])],
           c, eventType, GetElementById(w.dom, w.comps[c].htmlNodeId))

\* getChildComponent(id) that finds nothing
HasNoChild(w, c, id) == FALSE

\* getChildComponent(id) gives a component
HasChild(w, c, id) == id \in DOMAIN w.comps[c].childComponentIds

\* createChildModelComponent(className, element, id, modelItem) of the main
\* component: a DataItemComponent for that class name, undefined for any
\* other.  The model has one component for the instances of the class, one
\* after the other.
Factory(className) == IF className = "DataItemComponent" THEN "item" ELSE Null

\* The listeners the constructor of DataItemComponent adds: two for clicks,
\* with a selector each.
ItemListeners ==
  <<[eventType |-> "click", query |-> "span"], [eventType |-> "click", query |-> "div"]>>

\* new DataItemComponent(id, modelItem) and component.setHtmlNodeId(id), then
\* component._parsingService = this._bufferedParsingService.  The
\* constructor adds its listeners, and so the dispatcher of the new instance
\* to the element that carries the id; the dispatcher of the instance before
\* is on nodes that have left the document.  The template of the class is a
\* node or a string as it was for the instance before.
Constructed(w, c, nodeId, comp) ==
  [w EXCEPT
     !.comps[comp] = [NewComponent(<<"item">>, nodeId, w.comps[comp].string)
                        EXCEPT !.parsing = c, !.eventListeners = ItemListeners],
     !.attached = {a \in @ : a[3] # comp}
                    \cup {<<GetElementById(w.dom, nodeId), "click", comp>>},
     !.hooks = Append(@, [hook |-> "createChildComponent", comp |-> comp,
                          id |-> nodeId,
                          wasStopped |-> w.comps[comp].stopped,
                          present |-> TRUE,
                          registered |-> HasChild(w, c, nodeId),
                          rendered |-> FALSE])]

\* this.childComponentsByClassName[className][nodeId] = component;
\* component._parsingService = prevParsingService
Created(w, c, nodeId, className, comp) ==
  IF Halted(w) THEN w
  ELSE [w EXCEPT
          !.comps[c].byClass =
             IF className \in DOMAIN @
             THEN [@ EXCEPT ![className] = (nodeId :> comp) @@ @]
             ELSE (className :> (nodeId :> comp)) @@ @,
          !.comps[comp].parsing = Null]

\* delete this.childComponentsByClassName[className][nodeId]: a TypeError
\* when no child of the class name was ever kept.
Forgotten(w, c, nodeId, className) ==
  IF Halted(w) THEN w
  ELSE IF className \notin DOMAIN w.comps[c].byClass THEN Raise(w)
  ELSE [w EXCEPT !.comps[c].byClass[className] =
                    [id \in DOMAIN @ \ {nodeId} |-> @[id]]]

\* The body of the loop over _nodesWithFrontyComponentAttribute, for the
\* node at j: its id is in the document and has no child, and the factory
\* gives one; or its id is not in the document.  getChildComponent(nodeId)
\* is a component or undefined, never null.
CreateForNode(w, c, j, nodeId, className) ==
  IF GetElementById(w.dom, nodeId) # 0
  THEN IF HasChild(w, c, nodeId) \/ Factory(className) = Null
       THEN w
       ELSE Created(AddChildComponent(Constructed(w, c, nodeId, Factory(className)),
                                      c, Factory(className)),
                    c, nodeId, className, Factory(className))
  ELSE Forgotten(
         RemoveChildComponent(
           [w EXCEPT !.comps[c].marked = RemoveAt(@, j)], c,
           IF HasChild(w, c, nodeId)
           THEN w.comps[c].childComponentIds[nodeId] ELSE Null),
         c, nodeId, className)

\* for (j = length - 1; j >= 0; j--) over _nodesWithFrontyComponentAttribute
RECURSIVE CreateMarked(_, _, _)
CreateMarked(w, c, j) ==
  IF Halted(w) \/ j < 1 THEN w
  ELSE CreateMarked(
         CreateForNode(w, c, j,
                       GetAttr(w.dom[w.comps[c].marked[j]].attributes, "id"),
                       GetAttr(w.dom[w.comps[c].marked[j]].attributes,
                               "fronty-component")),
         c, j - 1)

\* _bufferedParsingService.finish(): the kept callbacks, in order
RECURSIVE Finish(_, _, _)
Finish(w, callbacks, i) ==
  IF Halted(w) \/ i > Len(callbacks) THEN w
  ELSE Finish(Render([w EXCEPT !.callback = callbacks[i]], callbacks[i].comp),
              callbacks, i + 1)

Finished(w, c) == IF Halted(w) THEN w ELSE Finish(w, w.comps[c].buffer, 1)

\* The children kept by class name whose element has left the document are
\* removed (one class and one id after the other).
Kept(byClass) ==
  UNION {{<<className, id>> : id \in DOMAIN byClass[className]} :
           className \in DOMAIN byClass}

Vanished(w, c) ==
  {v \in Kept(w.comps[c].byClass) :
     GetElementById(w.dom, w.comps[w.comps[c].byClass[v[1]][v[2]]].htmlNodeId) = 0}

CleanOne(w, c, v) ==
  Forgotten(RemoveChildComponent(w, c, w.comps[c].byClass[v[1]][v[2]]), c, v[2], v[1])

RECURSIVE CleanVanished(_, _)
CleanVanished(w, c) ==
  IF Halted(w) \/ Vanished(w, c) = {} THEN w
  ELSE CleanVanished(CleanOne(w, c, Pick(Vanished(w, c))), c)

\* _createChildComponents(): the components of the model declare no child
\* tags, so the first pair of start() and finish() has nothing to do.
CreateChildComponents(w, c) ==
  IF Halted(w) THEN w
  ELSE CleanVanished(
         Finished(CreateMarked([w EXCEPT !.comps[c].buffer = <<>>], c,
                               Len(w.comps[c].marked)), c), c)

\* The structure of the tree a piece of markup builds.
MarkupShape(m) == LET b == Build(<<>>, m) IN Shape(b.heap, b.root)

\* The keys of the children of a piece of markup; Null for a child that is
\* no keyed element.
MarkupKeys(m) == [i \in 1..Len(m.kids) |-> GetAttr(m.kids[i].attributes, "key")]

\* ------------------------------------------------------------------------
\* State
\* ------------------------------------------------------------------------

VARIABLES
  phase,      \* comparator runs: "input", "diffed", "applied"; "off" otherwise
  given,      \* comparator runs: the markup of the first tree
  wanted,     \* comparator runs: the markup of the second tree
  store,      \* comparator runs: the node store holding the two trees
  treeA,      \* comparator runs: root of the first tree (node1)
  treeB,      \* comparator runs: root of the second tree (node2)
  delta,      \* comparator runs: what diff(treeA, treeB) gave
  failed,     \* comparator runs: applyPatches raised a TypeError
  dom,        \* the node store of the page: the document and all other nodes
  comps,      \* the components, by name
  observers,  \* the observers array of every model
  data,       \* the data of every model: the markup its component shows
  trace,      \* the renders of the last operation, in order
  op,         \* the last operation called from outside
  threw,      \* the last operation ended with an exception
  hung,       \* the last operation does not return
  nested,     \* every render so far was by a component that owned its element
  reentered,  \* what the last operation's beforeRender hook called, when it ran
  missed,     \* the started components whose last render() found no element
  hooks,      \* the hooks the last operation ran, in order
  attached,   \* the event listeners of the nodes: <<node, event type, component>>
  calls       \* how many operations were called from outside so far

cmpVars == <<phase, given, wanted, store, treeA, treeB, delta, failed>>

appVars ==
  <<dom, comps, observers, data, trace, op, threw, hung, nested, reentered, missed,
    hooks, attached, calls>>

vars == <<cmpVars, appVars>>

\* The components are at rest in the runs of the comparator alone.
AppOff ==
  /\ dom = <<>>
  /\ comps = <<>>
  /\ observers = <<>>
  /\ data = <<>>
  /\ trace = <<>>
  /\ op = <<>>
  /\ threw = FALSE
  /\ hung = FALSE
  /\ nested = TRUE
  /\ reentered = "none"
  /\ missed = {}
  /\ hooks = <<>>
  /\ attached = {}
  /\ calls = 0

\* The comparator is not run on its own in the runs of the components.
CmpOff ==
  /\ phase = "off"
  /\ given = <<>>
  /\ wanted = <<>>
  /\ store = <<>>
  /\ treeA = 0
  /\ treeB = 0
  /\ delta = DiffResult(<<>>, <<>>, FALSE)
  /\ failed = FALSE

\* ------------------------------------------------------------------------
\* Runs of the comparator alone: diff(A, B) with no policy, then
\* applyPatches on A
\* ------------------------------------------------------------------------

\* Longest child list of an input tree.
MaxKids == 3

\* A table row in the manner of the benchmark's template: a keyed element
\* with a class and a label.
Row(key, class, label) ==
  El("tr", <<<<"key", key>>, <<"class", class>>>>, <<Tx(label)>>)

OldKids == {Row("1", "", "a"), Row("2", "", "a"), Row("3", "", "a"),
            El("p", <<>>, <<>>), Tx("a")}

NewKids == {Row("1", "", "a"), Row("2", "", "a"), Row("3", "", "a"),
            Row("1", "danger", "b"), El("span", <<>>, <<>>), Tx("a")}

KidLists(S) == UNION {[1..n -> S] : n \in 0..MaxKids}

\* Keyed siblings carry different keys.
UniqueKeys(kids) ==
  \A i, j \in 1..Len(kids) :
     (i # j /\ HasAttr(kids[i].attributes, "key") /\ HasAttr(kids[j].attributes, "key"))
        => GetAttr(kids[i].attributes, "key") # GetAttr(kids[j].attributes, "key")

\* The child lists the two trees are built from.
OldLists == {kids \in KidLists(OldKids) : UniqueKeys(kids)}

NewLists == {kids \in KidLists(NewKids) : UniqueKeys(kids)}

CmpInit ==
  /\ \E kidsA \in OldLists, kidsB \in NewLists :
       /\ given = El("tbody", <<>>, kidsA)
       /\ wanted = El("tbody", <<>>, kidsB)
  /\ phase = "input"
  /\ store = <<>>
  /\ treeA = 0
  /\ treeB = 0
  /\ delta = DiffResult(<<>>, <<>>, FALSE)
  /\ failed = FALSE
  /\ AppOff

\* The two trees are built, then TreeComparator.diff(treeA, treeB).
CmpDiff ==
  /\ phase = "input"
  /\ phase' = "diffed"
  /\ LET a == Build(<<>>, given)
         b == Build(a.heap, wanted)
     IN /\ store' = b.heap
        /\ treeA' = a.root
        /\ treeB' = b.root
        /\ delta' = Diff(b.heap, a.root, b.root, NoPolicy)
  /\ UNCHANGED <<given, wanted, failed, appVars>>

\* TreeComparator.applyPatches(patches), reached when diff has returned
CmpApply ==
  /\ phase = "diffed"
  /\ ~delta.diverged
  /\ LET o == ApplyPatches(store, delta.patches, {}, 1)
     IN store' = o.heap /\ failed' = o.error
  /\ phase' = "applied"
  /\ UNCHANGED <<given, wanted, treeA, treeB, delta, appVars>>

CmpNext == CmpDiff \/ CmpApply

CmpSpec == CmpInit /\ [][CmpNext]_vars

\* ------------------------------------------------------------------------
\* Runs of the comparator on two elements of one tag that differ in their
\* attributes at most: diff(A, B), then applyPatches on A
\* ------------------------------------------------------------------------

\* Attributes of an input element, at most.
MaxAttrs == 2

AttrNames == {"class", "title", "frontyid"}

AttrValues == {"a", "b"}

\* The attribute lists of the input elements: no name twice, in any order.
AttrLists ==
  {attrs \in UNION {[1..n -> AttrNames \X AttrValues] : n \in 0..MaxAttrs} :
     \A i, j \in 1..Len(attrs) : i # j => attrs[i][1] # attrs[j][1]}

AttrInit ==
  /\ \E attrsA \in AttrLists, attrsB \in AttrLists :
       /\ given = El("tr", attrsA, <<>>)
       /\ wanted = El("tr", attrsB, <<>>)
  /\ phase = "input"
  /\ store = <<>>
  /\ treeA = 0
  /\ treeB = 0
  /\ delta = DiffResult(<<>>, <<>>, FALSE)
  /\ failed = FALSE
  /\ AppOff

\* TreeComparator.applyPatches(patches, skipAttributes), with the list
\* _renderNewTree passes or with none; op keeps the list of the call
AttrApply ==
  /\ phase = "diffed"
  /\ ~delta.diverged
  /\ \E skipAttributes \in {{}, {"frontyid"}} :
       /\ store' = ApplyPatches(store, delta.patches, skipAttributes, 1).heap
       /\ failed' = ApplyPatches(store, delta.patches, skipAttributes, 1).error
       /\ op' = <<"applyPatches", skipAttributes>>
  /\ phase' = "applied"
  /\ UNCHANGED <<given, wanted, treeA, treeB, delta>>
  /\ UNCHANGED <<dom, comps, observers, data, trace, threw, hung, nested, reentered,
                 missed, hooks, attached, calls>>

AttrNext == CmpDiff \/ AttrApply

AttrSpec == AttrInit /\ [][AttrNext]_vars

\* ------------------------------------------------------------------------
\* Runs of the components: a main component rendering into the element "p"
\* of the page, and an item component rendering into the element "a" that
\* the main component's output holds
\* ------------------------------------------------------------------------

\* Listeners a component has, at most.
MaxListeners == 2

\* Operations called from outside in a run, at most.
MaxCalls == 5

Comps == {"main", "item"}

Models == {"store", "item"}

\* The element of the main component's output that a child renders into: a
\* keyed element with an id and a placeholder text.
Slot(key, id) == El("div", <<<<"key", key>>, <<"id", id>>>>, <<Tx("-")>>)

\* What the main component's template gives for the data of the store: the
\* two slots and a text; the slots exchanged; a class on the root and another
\* text; another root tag; the first slot gone.
FirstMainView == El("div", <<>>, <<Slot("1", "a"), Slot("2", "b"), Tx("x")>>)

MainViews ==
  {FirstMainView,
   El("div", <<>>, <<Slot("2", "b"), Slot("1", "a"), Tx("x")>>),
   El("div", <<<<"class", "c">>>>, <<Slot("1", "a"), Slot("2", "b"), Tx("y")>>),
   El("ul", <<>>, <<Slot("1", "a"), Slot("2", "b"), Tx("x")>>),
   El("div", <<>>, <<Slot("2", "b")>>)}

\* What the item component's renderer gives for the data of the item.
FirstItemView == El("span", <<<<"class", "">>>>, <<Tx("0")>>)

ItemViews ==
  {FirstItemView,
   El("span", <<<<"class", "danger">>>>, <<Tx("1")>>)}

ViewsOf(m) == IF m = "store" THEN MainViews ELSE ItemViews

Init ==
  /\ dom = Page.heap
  /\ comps = [c \in Comps |->
                IF c = "main" THEN NewComponent(<<"store">>, "p", RendersString(c))
                ELSE NewComponent(<<"item">>, "a", RendersString(c))]
  /\ observers = [m \in Models |-> <<>>]
  /\ data = [m \in Models |-> IF m = "store" THEN FirstMainView ELSE FirstItemView]
  /\ trace = <<>>
  /\ op = <<>>
  /\ threw = FALSE
  /\ hung = FALSE
  /\ nested = TRUE
  /\ reentered = "none"
  /\ missed = {}
  /\ hooks = <<>>
  /\ attached = {}
  /\ calls = 0
  /\ CmpOff

\* The world an operation starts in.
World ==
  [dom |-> dom, comps |-> comps, observers |-> observers, data |-> data,
   trace |-> <<>>, error |-> FALSE, hung |-> FALSE, nested |-> nested,
   hook |-> "none", reentered |-> "none", missed |-> missed,
   hooks |-> <<>>, attached |-> attached, callback |-> <<>>]

\* An operation can be called: the page is not stuck in a loop.
Ready == phase = "off" /\ ~hung /\ calls < MaxCalls

\* What an operation leaves.
Leaves(w, name, arg) ==
  /\ dom' = w.dom
  /\ comps' = w.comps
  /\ observers' = w.observers
  /\ data' = w.data
  /\ trace' = w.trace
  /\ op' = <<name, arg>>
  /\ threw' = w.error
  /\ hung' = w.hung
  /\ nested' = w.nested
  /\ reentered' = w.reentered
  /\ missed' = w.missed
  /\ hooks' = w.hooks
  /\ attached' = w.attached
  /\ calls' = calls + 1
  /\ UNCHANGED cmpVars

\* component.start()
CallStart(c) == Ready /\ Leaves(Start(World, c), "start", c)

\* component.stop()
CallStop(c) == Ready /\ Leaves(Stop(World, c), "stop", c)

\* component.render()
CallRender(c) == Ready /\ Leaves(Render(World, c), "render", c)

\* main.addChildComponent(item)
CallAddChild ==
  /\ Ready
  /\ ~Has(comps["main"].childComponents, "item")
  /\ Leaves(AddChildComponent(World, "main", "item"), "addChildComponent", "item")

\* model.set(update): the update gives the model new data (or the same
\* again), then the observers are notified.
ModelSet(m) ==
  /\ Ready
  /\ \E view \in ViewsOf(m) :
       Leaves(NotifyObservers([World EXCEPT !.data[m] = view], m, 1), "set", m)

Next ==
  \/ \E c \in Comps : CallStart(c)
  \/ \E c \in Comps : CallStop(c)
  \/ \E c \in Comps : CallRender(c)
  \/ CallAddChild
  \/ \E m \in Models : ModelSet(m)

Spec == Init /\ [][Next]_vars

\* ------------------------------------------------------------------------
\* Runs of the lifecycle: the item component observes the store as well as
\* its own model, children are added and removed, and a beforeRender hook
\* may call back
\* ------------------------------------------------------------------------

\* Two elements side by side: what a template with two roots gives.
TwoRoots == [roots |-> <<El("div", <<>>, <<Tx("x")>>), El("p", <<>>, <<Tx("y")>>)>>]

RootTagView == El("ul", <<>>, <<Slot("1", "a"), Slot("2", "b"), Tx("x")>>)

\* The main view without the element the item component renders into.
WithoutTargetView == El("div", <<>>, <<Slot("2", "b")>>)

LifeViews(m) ==
  IF m = "store" THEN {FirstMainView, RootTagView, WithoutTargetView, TwoRoots}
  ELSE ItemViews

LifeInit ==
  /\ dom = Page.heap
  /\ comps = [c \in Comps |->
                IF c = "main" THEN NewComponent(<<"store">>, "p", RendersString(c))
                ELSE NewComponent(<<"item", "store">>, "a", RendersString(c))]
  /\ observers = [m \in Models |-> <<>>]
  /\ data = [m \in Models |-> IF m = "store" THEN FirstMainView ELSE FirstItemView]
  /\ trace = <<>>
  /\ op = <<>>
  /\ threw = FALSE
  /\ hung = FALSE
  /\ nested = TRUE
  /\ reentered = "none"
  /\ missed = {}
  /\ hooks = <<>>
  /\ attached = {}
  /\ calls = 0
  /\ CmpOff

\* component.render() with a beforeRender hook that calls back
CallRenderReentering(c) ==
  /\ Ready
  /\ \E hook \in {"render", "set"} :
       Leaves(Render([World EXCEPT !.hook = hook], c), "render", c)

\* main.removeChildComponent(component), the component a child or not
CallRemoveChild(component) ==
  /\ Ready
  /\ Leaves(RemoveChildComponent(World, "main", component), "removeChildComponent", component)

\* model.set(update) with the data the lifecycle runs use
LifeSet(m) ==
  /\ Ready
  /\ \E view \in LifeViews(m) :
       Leaves(NotifyObservers([World EXCEPT !.data[m] = view], m, 1), "set", m)

LifeNext ==
  \/ \E c \in Comps : CallStart(c)
  \/ \E c \in Comps : CallStop(c)
  \/ \E c \in Comps : CallRender(c)
  \/ \E c \in Comps : CallRenderReentering(c)
  \/ CallAddChild
  \/ \E component \in {"item", Null} : CallRemoveChild(component)
  \/ \E m \in Models : LifeSet(m)

LifeSpec == LifeInit /\ [][LifeNext]_vars

\* ------------------------------------------------------------------------
\* Runs with children that the renders of the main component create: its
\* output marks an element with the class of the child, as the template of
\* the benchmark does, and the instances of the class are made by the
\* factory alone
\* ------------------------------------------------------------------------

\* An element that asks for a child component of a class.
Marker(key, id, className) ==
  El("div", <<<<"key", key>>, <<"id", id>>, <<"fronty-component", className>>>>,
     <<Tx("-")>>)

\* The first slot asks for a DataItemComponent.
MarkedView ==
  El("div", <<>>, <<Marker("1", "a", "DataItemComponent"), Slot("2", "b"), Tx("x")>>)

\* The second slot asks for a class the factory has nothing for.
OtherView ==
  El("div", <<>>, <<Marker("1", "a", "DataItemComponent"),
                    Marker("2", "b", "Other"), Tx("x")>>)

\* No slot is left.
BareView == El("div", <<>>, <<Tx("x")>>)

\* The slots of MarkedView, the other way round.
SwappedView ==
  El("div", <<>>, <<Slot("2", "b"), Marker("1", "a", "DataItemComponent"), Tx("x")>>)

DynViews(m) ==
  IF m = "store"
  THEN {FirstMainView, MarkedView, OtherView, WithoutTargetView, BareView,
        SwappedView, RootTagView}
  ELSE ItemViews

\* DataItemComponent.template is a function that gives a node or a compiled
\* template that gives a string: the benchmark has both.
DynInit ==
  /\ dom = Page.heap
  /\ \E string \in BOOLEAN :
       comps = [c \in Comps |->
                  IF c = "main" THEN NewComponent(<<"store">>, "p", RendersString(c))
                  ELSE NewComponent(<<"item">>, "a", string)]
  /\ observers = [m \in Models |-> <<>>]
  /\ data = [m \in Models |-> IF m = "store" THEN FirstMainView ELSE FirstItemView]
  /\ trace = <<>>
  /\ op = <<>>
  /\ threw = FALSE
  /\ hung = FALSE
  /\ nested = TRUE
  /\ reentered = "none"
  /\ missed = {}
  /\ hooks = <<>>
  /\ attached = {}
  /\ calls = 0
  /\ CmpOff

\* Operations called from outside in one of these runs, at most.
MaxDynCalls == 4

DynReady == Ready /\ calls < MaxDynCalls

\* model.set(update) with the data of these runs
DynSet(m) ==
  /\ DynReady
  /\ \E view \in DynViews(m) :
       Leaves(NotifyObservers([World EXCEPT !.data[m] = view], m, 1), "set", m)

\* component.addEventListener('click', selector, callback)
CallAddEventListener(c) ==
  /\ DynReady
  /\ Len(comps[c].eventListeners) < MaxListeners
  /\ \E nodesQuery \in {"span", "div"} :
       Leaves(AddEventListener(World, c, "click", nodesQuery), "addEventListener", c)

\* main.start(), main.stop() and render() of a component in these runs
DynStart == DynReady /\ CallStart("main")

DynStop == DynReady /\ CallStop("main")

DynRender(c) == DynReady /\ CallRender(c)

DynNext ==
  \/ DynStart
  \/ DynStop
  \/ \E c \in Comps : DynRender(c)
  \/ \E m \in Models : DynSet(m)
  \/ \E c \in Comps : CallAddEventListener(c)

DynSpec == DynInit /\ [][DynNext]_vars

\* ------------------------------------------------------------------------
\* Runs in which the slot of a child gives way to another element: the main
\* component is started, the item component added, and the store set
\* ------------------------------------------------------------------------

\* The slots exchanged, and a class on the root with another text.
ExchangedView == El("div", <<>>, <<Slot("2", "b"), Slot("1", "a"), Tx("x")>>)

ClassView == El("div", <<<<"class", "c">>>>, <<Slot("1", "a"), Slot("2", "b"), Tx("y")>>)

\* The first slot without its id: an element of the same key that is no
\* slot of a child.
UnslottedView ==
  El("div", <<>>, <<El("div", <<<<"key", "1">>>>, <<Tx("-")>>), Slot("2", "b"), Tx("x")>>)

SlotViews == {FirstMainView, ExchangedView, ClassView, UnslottedView}

\* store.set(update) with the data of these runs
SlotSet ==
  /\ Ready
  /\ \E view \in SlotViews :
       Leaves(NotifyObservers([World EXCEPT !.data["store"] = view], "store", 1),
              "set", "store")

SlotNext == CallStart("main") \/ CallStop("main") \/ CallAddChild \/ SlotSet

SlotSpec == Init /\ [][SlotNext]_vars

\* ------------------------------------------------------------------------
\* Runs in which an observer leaves during a notification: both components
\* observe the store, and the beforeRender hook of the first component that
\* a set() renders stops the component
\* ------------------------------------------------------------------------

\* store.set(update) with the data of these runs
ObsSet ==
  /\ Ready
  /\ \E view \in {FirstMainView, ClassView} :
       Leaves(NotifyObservers([World EXCEPT !.data["store"] = view], "store", 1),
              "set", "store")

\* store.set(update) when the beforeRender hook of the application calls
\* stop() on its component
ObsSetStopping ==
  /\ Ready
  /\ \E view \in {FirstMainView, ClassView} :
       Leaves(NotifyObservers([World EXCEPT !.data["store"] = view, !.hook = "stop"],
                              "store", 1),
              "set", "store")

ObsNext ==
  \/ \E c \in Comps : CallStart(c)
  \/ \E c \in Comps : CallStop(c)
  \/ CallAddChild
  \/ ObsSet
  \/ ObsSetStopping

ObsSpec == LifeInit /\ [][ObsNext]_vars

\* ------------------------------------------------------------------------
\* Runs of the registry of children: the item component is added to the main
\* one, also when it is a child already, is removed, and is given another
\* element to render into
\* ------------------------------------------------------------------------

\* main.addChildComponent(item), the item component a child already or not
CallAddChildAgain ==
  /\ Ready
  /\ Len(comps["main"].childComponents) < MaxKids
  /\ Leaves(AddChildComponent(World, "main", "item"), "addChildComponent", "item")

\* item.setHtmlNodeId(htmlNodeId)
CallSetHtmlNodeId ==
  /\ Ready
  /\ \E htmlNodeId \in {"a", "b"} :
       Leaves(SetHtmlNodeId(World, "item", htmlNodeId), "setHtmlNodeId", "item")

RegNext ==
  \/ CallStart("main")
  \/ CallStop("main")
  \/ CallAddChildAgain
  \/ CallRemoveChild("item")
  \/ CallSetHtmlNodeId

RegSpec == Init /\ [][RegNext]_vars

\* ------------------------------------------------------------------------
\* Runs of a RouterComponent: the main component is the router, whose output
\* holds the element of the pages, and two components are its pages
\* ------------------------------------------------------------------------

\* routeContentsHtmlId: the id of the element the pages render into.
PageHtmlId == "a"

\* setRouterConfig(routerConfig): the component of every route; the first
\* route is the default one.
Routes == [login |-> "item", home |-> "page"]

DefaultRoute == "login"

\* What the template of a page gives: an element that carries the id of the
\* element the pages render into.
PageView(text) == El("div", <<<<"id", PageHtmlId>>>>, <<Tx(text)>>)

\* The components and the models of these runs: the router with its router
\* model, and the two pages with a model each.
RouterComps == {"main", "item", "page"}

RouterModels == {"store", "item", "page"}

\* new RouterComponent(rootHtmlId, modelRenderer, routeContentsHtmlId) and
\* setRouterConfig(routerConfig), with no hash in the location: the fields
\* of a ModelComponent, the current page of the router model and
\* this.currentComponent (undefined).
NewRouterComponent ==
  NewComponent(<<"store">>, "p", TRUE)
    @@ [currentPage |-> DefaultRoute, currentComponent |-> Null]

RouterInit ==
  /\ dom = Page.heap
  /\ comps = [c \in RouterComps |->
                IF c = "main" THEN NewRouterComponent
                ELSE NewComponent(<<c>>, Null, TRUE)]
  /\ observers = [m \in RouterModels |-> <<>>]
  /\ data = [m \in RouterModels |->
               IF m = "store" THEN FirstMainView ELSE PageView(m)]
  /\ trace = <<>>
  /\ op = <<>>
  /\ threw = FALSE
  /\ hung = FALSE
  /\ nested = TRUE
  /\ reentered = "none"
  /\ missed = {}
  /\ hooks = <<>>
  /\ attached = {}
  /\ calls = 0
  /\ CmpOff

\* _goToCurrentPage(): the previous component is stopped, if there is one
StopCurrent(w) ==
  IF w.comps["main"].currentComponent # Null
  THEN Stop(w, w.comps["main"].currentComponent)
  ELSE w

\* _goToCurrentPage(): the component of the route is the current component
\* without more
AddPageAsIs(w, component) ==
  IF Halted(w) THEN w
  ELSE AddChildComponent([w EXCEPT !.comps["main"].currentComponent = component],
                         "main", component)

\* _goToCurrentPage(): the component of the route becomes the current
\* component, is given the element of the pages and is added as a child
AddPage(w, component) ==
  IF Halted(w) THEN w
  ELSE AddChildComponent(
         SetHtmlNodeId([w EXCEPT !.comps["main"].currentComponent = component],
                       component, PageHtmlId),
         "main", component)

\* Whether _goToCurrentPage() has a page to go to: the current page of the
\* router model is one of the routes.
HasRoute(w) ==
  /\ Truthy(w.comps["main"].currentPage)
  /\ w.comps["main"].currentPage \in DOMAIN Routes

\* _goToCurrentPage() as the last step of the operation name(arg), in the
\* world w the operation has come to: stop the previous component, remove
\* it, add the component of the route, start it.
GoToCurrentPage(w, name, arg) ==
  IF Halted(w) \/ ~HasRoute(w) THEN Leaves(w, name, arg)
  ELSE \E stopped \in {StopCurrent(w)} :
         \E removed \in {RemoveChildComponent(stopped, "main",
                                              w.comps["main"].currentComponent)} :
           \E added \in {AddPage(removed, Routes[w.comps["main"].currentPage])} :
             Leaves(Start(added, Routes[w.comps["main"].currentPage]), name, arg)

\* What reaches the router from outside: router.start(), and the hashchange
\* event with the hash of a route.
RouterEvents == {<<"start", "main">>} \cup {<<"hashchange", route>> : route \in DOMAIN Routes}

\* The handler of an event up to the call of _goToCurrentPage().  start() is
\* the start() of a ModelComponent, whose onStart() is the router's.  The
\* listener of hashchange sets the router model to the page of the hash and
\* notifies its observers: the router is the only one, when it is started,
\* and its update(model) is render() and then _goToCurrentPage().
Entered(w, event) ==
  IF event[1] = "start" THEN Start(w, "main")
  ELSE IF Has(w.observers["store"], "main")
    THEN Render([w EXCEPT !.comps["main"].currentPage = event[2]], "main")
  ELSE [w EXCEPT !.comps["main"].currentPage = event[2]]

\* Whether the handler of the event comes to _goToCurrentPage().
Goes(event) == event[1] = "start" \/ Has(observers["store"], "main")

\* router.start(), or a hashchange event
RouterEvent ==
  /\ Ready
  /\ \E event \in RouterEvents :
       \E entered \in {Entered(World, event)} :
         IF Goes(event) THEN GoToCurrentPage(entered, event[1], event[2])
         ELSE Leaves(entered, event[1], event[2])

\* router.stop()
RouterStop == Ready /\ Leaves(Stop(World, "main"), "stop", "main")

\* model.set(update) of the model of a page
PageSet ==
  /\ Ready
  /\ \E m \in RouterModels \ {"store"} :
       \E text \in {m, "again"} :
         Leaves(NotifyObservers([World EXCEPT !.data[m] = PageView(text)], m, 1),
                "set", m)

RouterNext == RouterEvent \/ RouterStop \/ PageSet

RouterSpec == RouterInit /\ [][RouterNext]_vars

\* The modes of the patches of a list, in order.
Modes(patches) == [i \in 1..Len(patches) |-> patches[i].mode]

\* C1: when diff(A, B) returns, applying its patches in order to A raises no
\* error and leaves A with the structure B had: the same children in the same
\* order at every level, with the same kinds, tags, texts and attributes.
RoundTrip ==
  phase = "applied" => (~failed /\ Shape(store, treeA) = MarkupShape(wanted))

\* C1 witness: a patch list that removes, inserts and swaps has been applied.
RoundTripWitness ==
  /\ phase = "applied"
  /\ {"remove-node", "insert-node", "swap-nodes"} \subseteq {delta.patches[i].mode : i \in 1..Len(delta.patches)}

\* C2: diff returns for every pair of child lists: the walk of
\* _compareChildren never comes back to a state it has been in.
DiffTerminates ==
  phase = "diffed" => ~delta.diverged

\* Every element of the old list has, in the new list, the contents it had.
UnchangedRows ==
  \A i \in 1..Len(given.kids), j \in 1..Len(wanted.kids) :
     MarkupKeys(given)[i] = MarkupKeys(wanted)[j] => given.kids[i] = wanted.kids[j]

\* The keyed children [1, 2, 3] against [3, 1, 2], contents unchanged.
ReorderedCase ==
  /\ MarkupKeys(given) = <<"1", "2", "3">>
  /\ MarkupKeys(wanted) = <<"3", "1", "2">>
  /\ UnchangedRows

\* C3: diffing the keyed children [1, 2, 3] against [3, 1, 2], contents
\* unchanged, gives a patch list of swap-nodes patches only.
ReorderOnlySwaps ==
  (phase = "diffed" /\ ReorderedCase) =>
     (~delta.diverged /\ \A i \in 1..Len(delta.patches) : delta.patches[i].mode = "swap-nodes")

\* The new list is the old list of keyed elements with the elements at the
\* positions i < j exchanged.
Transposed(i, j) ==
  /\ Len(given.kids) = Len(wanted.kids)
  /\ i < j /\ j <= Len(given.kids)
  /\ \A k \in 1..Len(given.kids) : MarkupKeys(given)[k] # Null
  /\ \A k \in 1..Len(given.kids) :
       wanted.kids[k] = given.kids[IF k = i THEN j ELSE IF k = j THEN i ELSE k]

\* C4: when the new list is the old list of keyed elements with the elements
\* at two positions i < j exchanged, diff gives exactly one patch, a
\* swap-nodes patch naming the two nodes, and applying it puts the old list
\* in the new order.
TranspositionOneSwap ==
  \A i, j \in 1..Len(given.kids) :
    Transposed(i, j) =>
      /\ phase = "diffed" =>
           /\ ~delta.diverged
           /\ delta.patches = <<Patch("swap-nodes", store[treeA].childNodes[i],
                                      store[treeA].childNodes[j], 0 - 1)>>
      /\ phase = "applied" => (~failed /\ Shape(store, treeA) = MarkupShape(wanted))

\* C4 witness: the first and the last of three rows exchanged, diffed and
\* applied.
TranspositionWitness ==
  /\ phase = "applied"
  /\ Transposed(1, 3)
  /\ Modes(delta.patches) = <<"swap-nodes">>

\* The keyed children [1, 2] against [1, 3, 2], and the other way round.
InsertedCase ==
  MarkupKeys(given) = <<"1", "2">> /\ MarkupKeys(wanted) = <<"1", "3", "2">> /\ UnchangedRows

RemovedCase ==
  MarkupKeys(given) = <<"1", "3", "2">> /\ MarkupKeys(wanted) = <<"1", "2">> /\ UnchangedRows

\* C5: keyed children [1, 2] against [1, 3, 2] give exactly one patch, an
\* insert-node of the new element before position 1; [1, 3, 2] against
\* [1, 2] give exactly one patch, a remove-node of the element with key 3.
InsertRemoveExact ==
  phase = "diffed" =>
    /\ InsertedCase =>
         delta.patches = <<Patch("insert-node", treeA, store[treeB].childNodes[2], 1)>>
    /\ RemovedCase =>
         delta.patches = <<Patch("remove-node", store[treeA].childNodes[2], 0, 0 - 1)>>

\* C5 witness: the insertion case has been diffed.
InsertRemoveWitness ==
  phase = "diffed" /\ InsertedCase /\ Modes(delta.patches) = <<"insert-node">>

\* The removal case has been diffed as well.
RemoveWitness ==
  phase = "diffed" /\ RemovedCase /\ Modes(delta.patches) = <<"remove-node">>

\* The renders of the last operation that came to their end, and those of
\* them that were not the first render of the component since its start.
CompletedRenders == {i \in 1..Len(trace) : trace[i].completed}

ReRenders == {i \in CompletedRenders : ~trace[i].firstRender}

\* The nodes a patch names.
Targets(patch) == {patch.toReplace, patch.replacement} \ {0}

\* C6: when a component that has rendered is rendered again and its
\* renderer gives what it gave the last time, the diff of the previous
\* virtual tree against the new tree is the empty list and the live tree
\* holds after the render what it held before.
NoOpRenderIdempotent ==
  \A i \in ReRenders :
    trace[i].sameOutput => (trace[i].patches = <<>> /\ ~trace[i].mutated)

\* C7: after every completed render of a component that renders into an
\* element of its own, the previous virtual tree it keeps has the structure
\* of the live subtree at its element, outside the interiors of the slots
\* of its child components: kinds, tags, child order, texts without their
\* markers, attributes without frontyid.
SnapshotMatchesLive ==
  nested => \A i \in CompletedRenders : trace[i].snapshot = trace[i].live

\* The pairs a re-render compared whose old node carries the id of a child
\* component and whose new node carries the same id.
SlotPairs(r) ==
  {j \in 1..Len(r.verdicts) :
     /\ Truthy(r.verdicts[j].id1)
     /\ r.verdicts[j].id1 \in r.childIds
     /\ r.verdicts[j].id2 = r.verdicts[j].id1}

\* C8: on a re-render, for every compared pair of a child component's slot
\* with a node of the same id the policy answers SKIP, no patch names a
\* node below the slot, and the patches that name the slot itself are
\* swap-nodes patches, which move it among its siblings.
SlotInteriorOpaque ==
  \A i \in ReRenders : \A j \in SlotPairs(trace[i]) :
    /\ trace[i].verdicts[j].verdict = "SKIP"
    /\ \A k \in 1..Len(trace[i].patches) :
         /\ Targets(trace[i].patches[k]) \cap trace[i].verdicts[j].below = {}
         /\ trace[i].verdicts[j].node1 \in Targets(trace[i].patches[k])
              => trace[i].patches[k].mode = "swap-nodes"

\* C8 witness: a re-render that compared a slot with a node of the same id
\* and moved the slot by a swap-nodes patch.
SlotInteriorOpaqueWitness ==
  \E i \in ReRenders : \E j \in SlotPairs(trace[i]) :
    \E k \in 1..Len(trace[i].patches) :
      /\ trace[i].patches[k].mode = "swap-nodes"
      /\ trace[i].verdicts[j].node1 \in Targets(trace[i].patches[k])

\* C8 as stated: no patch at all names the slot or a node below it.
SlotUntouched ==
  \A i \in ReRenders : \A j \in SlotPairs(trace[i]) :
    /\ trace[i].verdicts[j].verdict = "SKIP"
    /\ \A k \in 1..Len(trace[i].patches) :
         Targets(trace[i].patches[k])
           \cap (trace[i].verdicts[j].below \cup {trace[i].verdicts[j].node1}) = {}

\* C9: after a completed re-render of a parent, the live node that carries
\* the id of a child component is the node that carried it before the
\* render, with its subtree as it was, whenever that id was in the document
\* before the render and still is after it.
ChildNodeKept ==
  \A i \in ReRenders : \A id \in DOMAIN trace[i].saved :
    trace[i].kept[id] # 0 =>
      (trace[i].kept[id] = trace[i].saved[id] /\ trace[i].intact[id])

\* C9 witness: a re-render whose patches moved the slot of a child by
\* swap-nodes, with the child's own rendering inside the slot.
ChildNodeKeptWitness ==
  \E i \in ReRenders : \E id \in DOMAIN trace[i].saved :
    /\ trace[i].kept[id] = trace[i].saved[id]
    /\ dom[trace[i].kept[id]].childNodes # <<>>
    /\ ~comps["item"].stopped
    /\ \E k \in 1..Len(trace[i].patches) : trace[i].patches[k].mode = "swap-nodes"

RendersOf(records, c) == {i \in 1..Len(records) : records[i].comp = c}

\* C11: a render() call made on a component while a render of it is in
\* progress (here from its beforeRender hook, directly or through a model
\* notification) returns without calling the renderer function or touching
\* a tree, and no render is made for it later: the renderer is called for
\* the one render in progress only, and with a hook that calls render()
\* the operation leaves what it leaves with a hook that does nothing.
ReentrantRenderDropped ==
  [][\A c \in Comps :
       (op' = <<"render", c>> /\ reentered' # "none") =>
          /\ Cardinality(RendersOf(trace', c)) <= 1
          /\ \A i \in RendersOf(trace', c) :
               trace'[i].rendererCalls = IF RendersString(c) THEN 2 ELSE 1
          /\ reentered' = "render" =>
               /\ dom' = Render(World, c).dom
               /\ comps' = Render(World, c).comps
               /\ trace' = Render(World, c).trace
               /\ threw' = Render(World, c).error]_vars

\* C11 witness: a render whose hook called render() on the same component
\* came to its end.
ReentrantRenderDroppedWitness ==
  /\ reentered = "render"
  /\ \E i \in RendersOf(trace, op[2]) : trace[i].completed

\* render() called on a started component whose element is not in the
\* document raises nothing, calls no renderer function and leaves the
\* components and the document as they were.
AbsentTargetNoOp ==
  \A c \in Comps :
    (/\ op' = <<"render", c>>
     /\ ~comps[c].stopped
     /\ NotRenderableIgnoringStopped(dom, comps[c])) =>
       (~threw' /\ trace' = <<>> /\ dom' = dom /\ comps' = comps)

\* A render of a component whose last render() found no element to render
\* into is a first render, and comes to its end.
LaterRenderIsFirst ==
  \A i \in 1..Len(trace') :
    trace'[i].comp \in missed => (trace'[i].firstRender /\ trace'[i].completed)

\* C12: render() on a started component whose element is absent from the
\* document is a silent no-op (no exception, no renderer call, components
\* and document unchanged), and the next render of that component made
\* with the element present is a first render.
AbsentTargetRender == [][AbsentTargetNoOp /\ LaterRenderIsFirst]_vars

\* The no-op half of C12 alone.
AbsentTargetSilent == [][AbsentTargetNoOp]_vars

\* C13: an operation whose first render gets from the renderer function
\* markup with two sibling roots ends with an exception, and the live tree
\* is after it what it was before it.
TwoRootsRejected ==
  [][(Len(trace') > 0 /\ trace'[1].output = TwoRoots) =>
        (threw' /\ LiveTree(dom') = LiveTree(dom))]_vars

\* How many times x is in s.
Occurrences(s, x) == Cardinality({i \in 1..Len(s) : s[i] = x})

\* C14: after every operation a started component is among the observers
\* of each of its models exactly once and a stopped one is among the
\* observers of none, however it came to be started or stopped (by its own
\* start() or stop(), or by its parent's start(), stop(),
\* addChildComponent() or removeChildComponent()).
ObserversFollowLifecycle ==
  \A c \in Comps :
    \A m \in Range(comps[c].models) :
      Occurrences(observers[m], c) = IF comps[c].stopped THEN 0 ELSE 1

\* C14 witness: the parent's stop() has stopped a child that the parent's
\* start() or addChildComponent() had started, and the child, which had
\* rendered, observes no model any more.
ObserversFollowLifecycleWitness ==
  /\ op = <<"stop", "main">>
  /\ Has(comps["main"].childComponents, "item")
  /\ comps["item"].stopped
  /\ comps["item"].lastOutput # <<>>
  /\ \A m \in Models : ~Has(observers[m], "item")

\* Whether render(), called on the i-th observer of model m when its turn
\* comes in a notification, has something to do: the component is started,
\* no render of it is in progress, and its element is in the document.  The
\* first observer finds the document of before the call; a later one the
\* document the earlier renders left, in which a render of its own keeps
\* its element.
RendersAtItsTurn(m, i) ==
  /\ ~comps[observers[m][i]].stopped
  /\ ~comps[observers[m][i]].rendering
  /\ ~NotRenderableIgnoringStopped(IF i = 1 THEN dom ELSE dom',
                                   comps[observers[m][i]])

StopStopsSubtree ==
  \A c \in Comps :
    op = <<"stop", c>> =>
      /\ comps[c].stopped
      /\ \A i \in 1..Len(comps[c].childComponents) :
           comps[comps[c].childComponents[i]].stopped

\* The renders an operation made for component c are, where any, one first
\* render, made before any render of another component.
OneFirstRender(records, c) ==
  /\ Cardinality(RendersOf(records, c)) <= 1
  /\ \A i \in RendersOf(records, c) :
       i = 1 /\ records[i].firstRender /\ records[i].completed

\* C17: start() that returns from a stopped component leaves it started,
\* has made one render of it when its element is in the document, a first
\* render that replaces what the element held and tags its nodes from a
\* cleared counter, before any child rendered, and leaves every registered
\* child started.
StartOrder ==
  [][\A c \in Comps :
       (op' = <<"start", c>> /\ comps[c].stopped /\ ~threw' /\ ~hung') =>
          /\ ~comps'[c].stopped
          /\ \A i \in 1..Len(comps'[c].childComponents) :
               ~comps'[comps'[c].childComponents[i]].stopped
          /\ OneFirstRender(trace', c)
          /\ ~NotRenderableIgnoringStopped(dom, comps[c]) =>
               RendersOf(trace', c) # {}]_vars

\* C18: when main.addChildComponent(item) returns, item is in the list of
\* children of main and in its id map under the id of item's element, and
\* item is started exactly when main is; an item that was stopped and is
\* added to a started main whose output holds item's element has made its
\* first render.
AddChildAligns ==
  [][(op' = <<"addChildComponent", "item">> /\ ~threw' /\ ~hung') =>
        /\ Has(comps'["main"].childComponents, "item")
        /\ comps["item"].htmlNodeId \in DOMAIN comps'["main"].childComponentIds
        /\ comps'["main"].childComponentIds[comps["item"].htmlNodeId] = "item"
        /\ comps'["item"].stopped = comps'["main"].stopped
        /\ comps'["main"].stopped = comps["main"].stopped
        /\ (/\ comps["item"].stopped
            /\ ~comps["main"].stopped
            /\ ~comps["item"].rendering
            /\ ~NotRenderableIgnoringStopped(dom, comps["item"])) =>
               (\E i \in RendersOf(trace', "item") :
                   trace'[i].firstRender /\ trace'[i].completed)]_vars

\* C18 witness: a started item was added to a stopped main and is stopped.
AddChildAlignsWitness ==
  /\ op = <<"addChildComponent", "item">>
  /\ comps["main"].stopped
  /\ comps["item"].stopped
  /\ comps["item"].lastOutput # <<>>
  /\ \A m \in Models : ~Has(observers[m], "item")

\* C19: main.removeChildComponent(item), item being a child of main, that
\* returns leaves item stopped and observing nothing, the list of children
\* and the id map of main without item and otherwise as they were, and
\* has made a render of main, after item was stopped, when main is
\* started, its element is in the document and no render of it is in
\* progress; no other component is rendered.
RemoveChildRegistered ==
  [][(/\ op' = <<"removeChildComponent", "item">>
      /\ Has(comps["main"].childComponents, "item")
      /\ ~threw' /\ ~hung') =>
        /\ comps'["item"].stopped
        /\ \A m \in Models : ~Has(observers'[m], "item")
        /\ comps'["main"].childComponents =
             RemoveAt(comps["main"].childComponents,
                      IndexOf(comps["main"].childComponents, "item"))
        /\ DOMAIN comps'["main"].childComponentIds =
             DOMAIN comps["main"].childComponentIds \ {comps["item"].htmlNodeId}
        /\ \A i \in 1..Len(trace') :
             /\ trace'[i].comp = "main"
             /\ trace'[i].completed
             /\ comps["item"].htmlNodeId \notin trace'[i].childIds
        /\ Len(trace') <= 1
        /\ (/\ ~comps["main"].stopped
            /\ ~comps["main"].rendering
            /\ ~NotRenderableIgnoringStopped(dom, comps["main"])) => Len(trace') = 1]_vars

\* C19 witness: a started child that had rendered was removed from a
\* started main, which rendered again.
RemoveChildRegisteredWitness ==
  /\ op = <<"removeChildComponent", "item">>
  /\ comps["item"].stopped
  /\ comps["item"].lastOutput # <<>>
  /\ comps["main"].childComponents = <<>>
  /\ Len(trace) = 1
  /\ trace[1].comp = "main" /\ trace[1].completed /\ ~trace[1].firstRender

\* C20: main.removeChildComponent(component), the component (or undefined)
\* not being a child of main, raises nothing, calls no renderer function
\* and leaves the components (lists of children, id maps, snapshots and
\* mappings) and the live tree as they were.
RemoveUnregisteredNoOp ==
  [][\A component \in {"item", Null} :
       (/\ op' = <<"removeChildComponent", component>>
        /\ ~Has(comps["main"].childComponents, component)) =>
          /\ ~threw' /\ ~hung'
          /\ trace' = <<>>
          /\ comps' = comps
          /\ LiveTree(dom') = LiveTree(dom)]_vars

\* ------------------------------------------------------------------------
\* The children a render creates, the listeners, the hooks
\* ------------------------------------------------------------------------

\* The last operation had a render of the component come to its end, and
\* raised nothing.
RenderedIn(c) ==
  /\ ~threw /\ ~hung
  /\ \E i \in CompletedRenders : trace[i].comp = c

\* The elements inside the element of a component that ask for a child
\* component the factory has a class for.
Asking(c) ==
  IF GetElementById(dom, comps[c].htmlNodeId) = 0 THEN {}
  ELSE {n \in Range(Subtree(dom, GetElementById(dom, comps[c].htmlNodeId))) :
          /\ IsMarked(dom, n)
          /\ Factory(GetAttr(dom[n].attributes, "fronty-component")) # Null}

\* One child is registered under the id, renders there and is started.
ChildAt(c, id) ==
  /\ id \in DOMAIN comps[c].childComponentIds
  /\ Occurrences(comps[c].childComponents, comps[c].childComponentIds[id]) = 1
  /\ comps[comps[c].childComponentIds[id]].htmlNodeId = id
  /\ ~comps[comps[c].childComponentIds[id]].stopped

\* C21: after a completed render of the started main component, every
\* element inside its element that carries the fronty-component attribute
\* with a class the factory makes components of has exactly one child
\* component registered under its id, which renders at that id and is
\* started; and the factory is not called for an id that has a child.
DynamicChildCreated ==
  /\ (RenderedIn("main") /\ ~comps["main"].stopped) =>
        \A n \in Asking("main") : ChildAt("main", GetAttr(dom[n].attributes, "id"))
  /\ \A i \in 1..Len(hooks) :
        hooks[i].hook = "createChildComponent" => ~hooks[i].registered

\* The renders of a component in the last operation that came as far as
\* _createChildComponents.
ReachedChildren(c) == {i \in 1..Len(trace) : trace[i].comp = c /\ trace[i].patched}

\* C22: a render of main that has applied its patches comes to its end
\* without an error; no child stays registered whose id is not in the
\* document; a child that was registered and whose id has left the document
\* is stopped, observes no model and is in neither the list nor the id map;
\* and the removal starts no second render of main.
VanishedChildrenReaped ==
  [][ReachedChildren("main")' # {} =>
       /\ ~threw'
       /\ \A i \in ReachedChildren("main")' : trace'[i].completed
       /\ \A id \in DOMAIN comps'["main"].childComponentIds :
            GetElementById(dom', id) # 0
       /\ \A child \in Range(comps["main"].childComponents) :
            GetElementById(dom', comps[child].htmlNodeId) = 0 =>
              /\ ~Has(comps'["main"].childComponents, child)
              /\ comps[child].htmlNodeId \notin DOMAIN comps'["main"].childComponentIds
              /\ comps'[child].stopped
              /\ \A m \in Models : ~Has(observers'[m], child)
       /\ Cardinality({i \in 1..Len(trace') : trace'[i].comp = "main"}) = 1]_vars

\* The operations that render main and start nothing else.
RendersMain == {<<"set", "store">>, <<"render", "main">>}

\* C23: while main renders, the renderer function of a child that was
\* registered before the render began is not called; a child that renders
\* in that time was made by that render and renders for the first time.
ExistingChildrenNotRendered ==
  [][op' \in RendersMain =>
       \A i \in 1..Len(trace') :
         trace'[i].comp # "main" =>
           /\ ~Has(comps["main"].childComponents, trace'[i].comp)
           /\ \E j \in 1..Len(hooks') :
                /\ hooks'[j].hook = "createChildComponent"
                /\ hooks'[j].comp = trace'[i].comp
           /\ trace'[i].completed => trace'[i].firstRender]_vars

\* C23 witness: main rendered again with a child its render had made, whose
\* element asks for the child still, and the child did not render.
ExistingChildrenNotRenderedWitness ==
  /\ op \in RendersMain
  /\ ~threw
  /\ Len(trace) = 1 /\ trace[1].completed /\ ~trace[1].firstRender
  /\ trace[1].childIds # {}
  /\ comps["main"].childComponents # <<>>
  /\ comps["main"].marked # <<>>
  /\ comps["main"].byClass # <<>>

\* An event at a node passes the node and its ancestors, innermost first.
RECURSIVE Path(_, _)
Path(h, n) == IF n = 0 THEN {} ELSE {n} \cup Path(h, ParentOf(h, n))

\* event.target.matches(query), for the selectors of the model: tag names
Matches(h, n, query) == h[n].nodeType = "ELEMENT_NODE" /\ h[n].tagName = query

\* How often an event of a type at a target calls the callback of a
\* listener of a component: _eventsListener runs once for each element on
\* the path that has the dispatcher of the component for the type.
Invoked(h, c, listener, target, eventType) ==
  IF Matches(h, target, listener.query) /\ listener.eventType = eventType
  THEN Cardinality({n \in Path(h, target) : <<n, eventType, c>> \in attached})
  ELSE 0

\* The elements of the document that have the dispatcher of a component.
Dispatching(c, eventType) ==
  {n \in Range(Subtree(dom, Document)) : <<n, eventType, c>> \in attached}

\* C24: after a completed render of a component, for each of its listeners
\* the dispatcher of the component is on the element that carries the id
\* of the component and on no other element of the document, and an event
\* of the type at an element inside that matches the selector calls the
\* callback of the listener once.
ListenersSurvive ==
  \A c \in Comps :
    (/\ \E k \in CompletedRenders : trace[k].comp = c
     /\ GetElementById(dom, comps[c].htmlNodeId) # 0) =>
       \A i \in 1..Len(comps[c].eventListeners) :
         /\ Dispatching(c, comps[c].eventListeners[i].eventType) =
              {GetElementById(dom, comps[c].htmlNodeId)}
         /\ \A target \in Range(Subtree(dom, GetElementById(dom, comps[c].htmlNodeId))) :
              Matches(dom, target, comps[c].eventListeners[i].query) =>
                Invoked(dom, c, comps[c].eventListeners[i], target,
                        comps[c].eventListeners[i].eventType) = 1

\* C24 witness: a component with a listener rendered again and swapped two
\* of its elements, and an element inside its element matches the selector
\* of the listener.
ListenersSurviveWitness ==
  \E c \in Comps :
    /\ \E k \in ReRenders :
         trace[k].comp = c /\ Has(Modes(trace[k].patches), "swap-nodes")
    /\ GetElementById(dom, comps[c].htmlNodeId) # 0
    /\ \E i \in 1..Len(comps[c].eventListeners) :
         \E target \in Range(Subtree(dom, GetElementById(dom, comps[c].htmlNodeId))) :
           /\ target # GetElementById(dom, comps[c].htmlNodeId)
           /\ Matches(dom, target, comps[c].eventListeners[i].query)

\* C25: when onStart runs in a start() that found the component stopped and
\* its element in the document, the render of the component has come to
\* its end: the previous virtual tree is set and no render is in progress.
\* So it is for a child that a render of its parent has made.
OnStartFollowsRender ==
  \A i \in 1..Len(hooks) :
    (hooks[i].hook = "onStart" /\ hooks[i].wasStopped /\ hooks[i].present) =>
      hooks[i].rendered

\* C26: after every completed render of a component that renders into an
\* element of its own, every element and text node of its previous virtual
\* tree carries an identifier that the mapping resolves to the live node at
\* the same place below the element of the component.
IdentityMapResolves ==
  nested => \A i \in CompletedRenders : trace[i].unresolved = {}

\* The number of nodes in the subtrees that the patches of a list bring in
\* anew: the replacements of the patches that replace, insert or append.
RECURSIVE NewNodes(_, _, _)
NewNodes(h, patches, i) ==
  IF i > Len(patches) THEN 0
  ELSE NewNodes(h, patches, i + 1) +
       (IF /\ patches[i].mode \in {"replace-subtree", "insert-node", "append-child"}
           /\ patches[i].replacement # 0
        THEN Len(Subtree(h, patches[i].replacement)) ELSE 0)

\* C27: a render of a component that is not its first gives identifiers to
\* the nodes of the subtrees its replace-subtree, insert-node and
\* append-child patches bring in and to no other node, one to each: the
\* counter goes on by the number of those nodes, and no text of the previous
\* virtual tree carries two markers.
TagsOnlyNewSubtrees ==
  [][\A c \in Comps : \A k \in 1..Len(trace') :
       (/\ trace'[k].comp = c /\ trace'[k].completed /\ ~trace'[k].firstRender
        /\ Cardinality({j \in 1..Len(trace') : trace'[j].comp = c}) = 1) =>
          /\ comps'[c].counter - comps[c].counter = NewNodes(dom', trace'[k].patches, 1)
          /\ \A n \in Range(Subtree(dom', comps'[c].prev)) :
               Len(dom'[n].nodeValue.marks) <= 1]_vars

\* ------------------------------------------------------------------------
\* The comparator: swaps and attributes
\* ------------------------------------------------------------------------

\* An iteration of the loop of _compareChildren that moves no cursor has
\* pushed a swap-nodes patch.
Swaps(h, cx, st) ==
  /\ WalkStep(h, cx, st).child1pos = st.child1pos
  /\ WalkStep(h, cx, st).child2pos = st.child2pos

\* After the iteration the local array holds at the old-side cursor an
\* element with the key of the new-side element at its cursor.
CursorPairMatches(h, cx, st) ==
  KeyOf(h, WalkStep(h, cx, st).child1Array[st.child1pos + 1]) =
    KeyOf(h, h[cx.node2].childNodes[st.child2pos + 1])

\* Every swap of the walk from a state on leaves the cursor pair matching.
RECURSIVE SwapsMatch(_, _, _)
SwapsMatch(h, cx, st) ==
  IF ~WalkRunning(h, cx, st) THEN TRUE
  ELSE /\ Swaps(h, cx, st) => CursorPairMatches(h, cx, st)
       /\ SwapsMatch(h, cx, WalkStep(h, cx, st))

\* C28: when _compareChildren pushes a swap-nodes patch with the old-side
\* cursor at p, its local array holds at p afterwards the element whose key
\* is the key of the new-side element at the cursor.
SwapMatchesCursorPair ==
  phase = "diffed" =>
    SwapsMatch(store, WalkContext(store, treeA, treeB, NoPolicy), WalkStart(store, treeA))

\* The attribute mapping of an element, frontyid left out, differs from
\* that of another by an entry added, removed or changed.
MappingsDiffer == AttrMap(given.attributes) # AttrMap(wanted.attributes)

\* C29: for two elements of one tag, diff gives an attributes patch for the
\* pair exactly when their attribute mappings (frontyid left out) differ;
\* the same mapping, in whatever order of the attributes, gives no patch.
AttributesPatchIffDiffer ==
  (phase = "diffed" /\ given.tagName = wanted.tagName /\ given.kids = <<>>
                    /\ wanted.kids = <<>>) =>
    (delta.patches = <<Patch("attributes", treeA, treeB, -1)>> <=> MappingsDiffer)
    /\ (~MappingsDiffer => delta.patches = <<>>)

\* C30: the attributes patch that diff(T1, T2) gives for two elements of one
\* tag, applied to T1, leaves T1 with the attribute mapping of T2 (frontyid
\* left out): every attribute of T2 with its value, and no other.
AttributesRoundTrip ==
  (phase = "applied" /\ Modes(delta.patches) = <<"attributes">>) =>
    /\ ~failed
    /\ AttrMap(store[treeA].attributes) = AttrMap(wanted.attributes)

\* C30 witness: the patch was applied to an element that had an attribute
\* the wanted element lacks and lacked one it has.
AttributesRoundTripWitness ==
  /\ phase = "applied"
  /\ Modes(delta.patches) = <<"attributes">>
  /\ \E a \in AttrMap(given.attributes) :
       \A b \in AttrMap(wanted.attributes) : b[1] # a[1]
  /\ \E b \in AttrMap(wanted.attributes) :
       \A a \in AttrMap(given.attributes) : b[1] # a[1]
  /\ AttrMap(store[treeA].attributes) = AttrMap(wanted.attributes)

\* C31: an attributes patch applied with frontyid in the list of attributes
\* to skip leaves the frontyid of the target as it was: none is added, the
\* one it has is neither changed nor removed, whatever the replacement
\* carries.
TaggingAttributeUntouched ==
  (/\ phase = "applied"
   /\ op = <<"applyPatches", {"frontyid"}>>
   /\ Modes(delta.patches) = <<"attributes">>) =>
     /\ ~failed
     /\ HasAttr(store[treeA].attributes, "frontyid") = HasAttr(given.attributes, "frontyid")
     /\ GetAttr(store[treeA].attributes, "frontyid") = GetAttr(given.attributes, "frontyid")

\* ------------------------------------------------------------------------
\* The render as a whole
\* ------------------------------------------------------------------------

\* The renders of the last operation that came to their end and were the
\* first render of the component since its start.
FirstRenders == {i \in CompletedRenders : trace[i].firstRender}

\* The pairs of a render the policy answered with a verdict.
Answered(r, verdict) == {j \in 1..Len(r.verdicts) : r.verdicts[j].verdict = verdict}

\* The patches diff itself returns for a pair: those that name node1 as the
\* node to replace, to change or to put children into.
OfThePair(r, j) ==
  {k \in 1..Len(r.patches) :
     /\ r.patches[k].toReplace = r.verdicts[j].node1
     /\ r.patches[k].mode \in {"replace-subtree", "attributes", "node-value",
                               "insert-node", "append-child"}}

\* The patches and the verdicts of a render that name a node below one of
\* the two nodes of a pair.
BelowThePair(r, j) ==
  {k \in 1..Len(r.patches) :
     Targets(r.patches[k]) \cap (r.verdicts[j].below \cup r.verdicts[j].below2) # {}}

ConsultedBelow(r, j) ==
  {k \in 1..Len(r.verdicts) : r.verdicts[k].node1 \in r.verdicts[j].below}

\* C32: for a pair the policy answers SKIP, diff gives no patch for the pair
\* and asks the policy about no pair below it; for a pair it answers
\* REPLACE, diff gives the one replace-subtree patch that names the pair,
\* and nothing for a node below; on a first render the policy answers
\* REPLACE for the root pair, and the patch list is that one patch.
VerdictsShortCircuit ==
  /\ \A i \in CompletedRenders :
       /\ \A j \in Answered(trace[i], "SKIP") :
            /\ OfThePair(trace[i], j) = {}
            /\ BelowThePair(trace[i], j) = {}
            /\ ConsultedBelow(trace[i], j) = {}
       /\ \A j \in Answered(trace[i], "REPLACE") :
            /\ \A k \in OfThePair(trace[i], j) :
                 trace[i].patches[k] =
                   Patch("replace-subtree", trace[i].verdicts[j].node1,
                         trace[i].verdicts[j].node2, -1)
            /\ Cardinality(OfThePair(trace[i], j)) = 1
            /\ BelowThePair(trace[i], j) = {}
            /\ ConsultedBelow(trace[i], j) = {}
  /\ \A i \in FirstRenders :
       /\ Len(trace[i].verdicts) = 1
       /\ trace[i].verdicts[1].verdict = "REPLACE"
       /\ Modes(trace[i].patches) = <<"replace-subtree">>
       /\ trace[i].patches[1].toReplace = trace[i].verdicts[1].node1
       /\ trace[i].patches[1].replacement = trace[i].verdicts[1].node2

\* C32 witness: a re-render in which the policy answered REPLACE for the
\* slot of a child, compared with an element that has children and another
\* id, while diff gave patches for other nodes as well.
VerdictsShortCircuitWitness ==
  \E i \in ReRenders : \E j \in Answered(trace[i], "REPLACE") :
    /\ trace[i].verdicts[j].id1 \in trace[i].childIds
    /\ trace[i].verdicts[j].below # {}
    /\ trace[i].verdicts[j].below2 # {}
    /\ Len(trace[i].patches) > 1

\* The statements of a re-render, in the order of the text of
\* _renderNewTree.
PipelineOrder ==
  <<"save", "diff", "patch-live", "patch-snapshot", "restore", "listeners",
    "children", "afterRender", "clear">>

\* C33: a re-render that is not aborted runs these statements, each once
\* and in this order: the nodes of the child slots are saved, the previous
\* virtual tree is compared with the new tree, the patches are applied to
\* the live tree, the same patches to the previous virtual tree, the nodes
\* of the child slots are put back, the listeners are bound again, the
\* children are created and removed, afterRender is run, the guard is
\* cleared.
PipelineInOrder ==
  \A i \in ReRenders : trace[i].steps = PipelineOrder

\* C33 witness: a re-render of the main component that had the node of a
\* child to save, patches to apply, a listener to bind and a marked element
\* with its child to look at.
PipelineInOrderWitness ==
  \E i \in ReRenders :
    /\ trace[i].comp = "main"
    /\ DOMAIN trace[i].saved # {}
    /\ trace[i].patches # <<>>
    /\ comps["main"].eventListeners # <<>>
    /\ comps["main"].marked # <<>>
    /\ Kept(comps["main"].byClass) # {}
    /\ trace[i].steps = PipelineOrder

\* The renders of the last operation whose patching of the live tree was
\* ended by a TypeError, and those of them that were at a patch whose node
\* was not resolved.
FailedRenders == {i \in 1..Len(trace) : trace[i].failure # <<>>}

LostRenders == {i \in FailedRenders : trace[i].failure.unresolved}

\* C34: when a node of a patch is not resolved to a live node while the
\* patches are applied to the live tree, the render ends with an error, and
\* the live tree, the previous virtual tree and the mapping are as they were
\* when that patch was reached.
UnresolvedIsFatal ==
  \A i \in LostRenders :
    /\ threw
    /\ trace[i].failure.liveKept
    /\ trace[i].failure.snapshotKept
    /\ trace[i].failure.mapKept

\* C35: when no render() call of a component is running (every operation
\* called from outside has returned or has ended with an exception), the
\* flag rendering of the component is false, so that the next render() call
\* is not dropped by the test render() starts with.
GuardClearAtRest ==
  ~hung => \A c \in Comps : ~Rendering(comps[c])

\* The observers of model m before a notification that are its observers
\* after it as well.
StillRegistered(m) == {i \in 1..Len(observers[m]) : Has(observers'[m], observers[m][i])}

\* C36: when model.set(update) returns and a callback of the notification
\* has removed observers of the model, every observer that stayed registered
\* and whose render() had something to do at its turn has rendered exactly
\* once: none is passed over.
NoObserverSkipped ==
  [][(op' = <<"set", "store">> /\ ~threw' /\ ~hung') =>
        \A i \in StillRegistered("store") :
          RendersAtItsTurn("store", i) =>
            Cardinality(RendersOf(trace', observers["store"][i])) = 1]_vars

\* The ids of the elements the children of the list of c render into.
ListedIds(c) ==
  {comps[comps[c].childComponents[i]].htmlNodeId : i \in 1..Len(comps[c].childComponents)}

\* C37: after every operation the list of children and the map of their ids
\* agree, in every component: a child is in the list once, the keys of the
\* map are the ids of the elements the listed children render into, and
\* every key gives the listed child that renders into the element of that
\* id.
RegistryConsistent ==
  \A c \in Comps :
    /\ \A i \in 1..Len(comps[c].childComponents) :
         Occurrences(comps[c].childComponents, comps[c].childComponents[i]) = 1
    /\ DOMAIN comps[c].childComponentIds = ListedIds(c)
    /\ \A id \in DOMAIN comps[c].childComponentIds :
         /\ Has(comps[c].childComponents, comps[c].childComponentIds[id])
         /\ comps[comps[c].childComponentIds[id]].htmlNodeId = id

\* The calls of a hook of component c among the hooks of an operation.
HookCalls(called, hook, c) ==
  {i \in 1..Len(called) : called[i].hook = hook /\ called[i].comp = c}

\* An operation found component c in one state and left it in the other.
Transition(c, from, to) == comps[c].stopped = from /\ comps'[c].stopped = to

\* C38: an operation that returns has called onStart once for every
\* component it took from stopped to started and onStop once for every
\* component it took from started to stopped, and has called no hook of a
\* component it did not take from one state to the other; start() of a
\* started component and stop() of a stopped one call no hook, change no
\* state and render nothing.
HooksOncePerTransition ==
  [][(~threw' /\ ~hung') =>
        \A c \in Comps :
          /\ Cardinality(HookCalls(hooks', "onStart", c))
               = IF Transition(c, TRUE, FALSE) THEN 1 ELSE 0
          /\ Cardinality(HookCalls(hooks', "onStop", c))
               = IF Transition(c, FALSE, TRUE) THEN 1 ELSE 0
          /\ (\/ op' = <<"start", c>> /\ ~comps[c].stopped
              \/ op' = <<"stop", c>> /\ comps[c].stopped) =>
                /\ comps' = comps
                /\ dom' = dom
                /\ observers' = observers
                /\ trace' = <<>>]_vars

\* The component of the current route of the router.
CurrentPageComponent(all) == Routes[all["main"].currentPage]

\* The router has one child: the component of the current route, started,
\* which renders into the element of the pages; no other page is started.
ShowsCurrentPage(all) ==
  /\ all["main"].childComponents = <<CurrentPageComponent(all)>>
  /\ DOMAIN all["main"].childComponentIds = {PageHtmlId}
  /\ all["main"].childComponentIds[PageHtmlId] = CurrentPageComponent(all)
  /\ all["main"].currentComponent = CurrentPageComponent(all)
  /\ all[CurrentPageComponent(all)].htmlNodeId = PageHtmlId
  /\ ~all[CurrentPageComponent(all)].stopped
  /\ \A c \in RouterComps \ {"main", CurrentPageComponent(all)} : all[c].stopped

\* Among the hooks of an operation, onStop of the component shown before
\* comes before the onStart that starts the component shown after.
StoppedBeforeStarted(called, before, after) ==
  \E i, j \in 1..Len(called) :
    /\ i < j
    /\ called[i].hook = "onStop" /\ called[i].comp = before /\ ~called[i].wasStopped
    /\ called[j].hook = "onStart" /\ called[j].comp = after /\ called[j].wasStopped
    /\ \A k \in 1..Len(called) :
         (called[k].hook = "onStart" /\ called[k].comp = after /\ called[k].wasStopped)
           => i < k

\* C39: when start() of the router or a hashchange event for a configured
\* route has been handled by a started router, the router has one child,
\* the component of the current route, which is started and renders into
\* the element of the pages, and the component that was shown before, when
\* it was started, was stopped before the component shown now was started;
\* it stays so until the next of these operations.
RouterShowsOnePage ==
  [][/\ ~comps'["main"].stopped => ShowsCurrentPage(comps')
     /\ (/\ op'[1] \in {"start", "hashchange"}
         /\ ~comps'["main"].stopped
         /\ comps["main"].currentComponent # Null
         /\ ~comps[comps["main"].currentComponent].stopped) =>
           StoppedBeforeStarted(hooks', comps["main"].currentComponent,
                                CurrentPageComponent(comps'))]_vars

\* C39 witness: the router, which showed the page of one route, has gone to
\* the page of the other route at a hashchange event and has rendered it
\* into the element of the pages.
RouterShowsOnePageWitness ==
  /\ op = <<"hashchange", "home">>
  /\ ~threw /\ ~hung
  /\ comps["main"].childComponents = <<"page">>
  /\ comps["item"].lastOutput # <<>>
  /\ comps["item"].stopped
  /\ \E i \in 1..Len(trace) : trace[i].comp = "page" /\ trace[i].completed

\* C40: every render() call of the last operation that went on to the
\* renderer function (the component started, its element in the document,
\* no render of it in progress) called the renderer function once, whether
\* the function gives a string or a node.
OneRendererCall ==
  \A i \in 1..Len(trace) : trace[i].rendererCalls = 1

====
